---- MODULE Spec2Model ----
(***************************************************************************)
(* A model of gresiop: the property-graph kernel (kernel.py), the          *)
(* rule-graph schema (rules_pgr_base.py), the guard/pattern compiler       *)
(* (compiler.py), the standard handlers (rule_handlers_std.py) and the     *)
(* beam search (search.py).                                                *)
(*                                                                         *)
(* Python values are records [t, n, s]: t is the Python type, n the        *)
(* integer payload (also the heap address of a container), s the string    *)
(* payload.  Real numbers are integers in hundredths.  A Python dict is a  *)
(* sequence of [k, v] entries with distinct keys, in insertion order.      *)
(***************************************************************************)
EXTENDS Integers, Sequences, FiniteSets, TLC

VARIABLES
    graphs,      \* SpecGraph: the two Graph objects "g" and "h"
    heap,        \* SpecGraph: the container objects property values refer to
    origin,      \* SpecGraph: how h came to be: "none", "new", "clone", "json"
                 \* (parsed from a re-laid document of g), "round_trip"
    last,        \* SpecGraph: the last operation and the graph it was called on
    nops,        \* SpecGraph: number of operations performed
    gdGraph,     \* SpecGuard: the artifact graph g handed to the predicate
    gdEnv,       \* SpecGuard: the binding env (variable name -> node id)
    gdGuards,    \* SpecGuard: the guards the predicate was built from
    gdResult,    \* SpecGuard: "none" before the call, then "true", "false" or "raise"
    mtGraph,     \* SpecMatch: the artifact graph g
    mtVars,      \* SpecMatch: vars_spec, the PatternVar props of a rule
    mtEnvs,      \* SpecMatch: what match_var_bindings returned
    mtEnvsStd,   \* SpecMatch: what rule_handlers_std._match_vars returned
    mtDone,      \* SpecMatch: which of the two functions have been called
    rg,          \* SpecRules: the rule graph
    rgPrev,      \* SpecRules: the rule graph before the last call
    rgCalls,     \* SpecRules: the calls made so far, with what they returned
    sArgs,       \* SpecSearch: search()'s arguments initial, rules, evaluator, cfg
    sPc,         \* SpecSearch: "start", "loop", "select" or "done" (returned)
    sIter,       \* SpecSearch: iterations of the main loop entered so far
    sRng,        \* SpecSearch: the state of the random generator
    sBeam,       \* SpecSearch: beam
    sBest,       \* SpecSearch: best
    sSeen,       \* SpecSearch: seen_signatures
    sMemo,       \* SpecSearch: memo, signature -> Metrics
    sCands,      \* SpecSearch: candidates, the list of the last iteration entered
    sProv,       \* SpecSearch: prov.steps
    sEvals,      \* SpecSearch: the signature of each graph handed to evaluate()
    sSelected,   \* SpecSearch: every tuple that was put into a beam
    sApplied,    \* SpecSearch: number of calls of rewrite functions
    sOccurred,   \* SpecSearch: signatures of the seed and of every candidate generated
    sCall,       \* SpecRepeat: 1 in the first call of search(), 2 in the repeated call
    sFirst,      \* SpecRepeat: what the first call returned
    cRg,         \* SpecCompile: the rule graph
    cRegistry,   \* SpecCompile: the kinds of ctx.registry
    cResult,     \* SpecCompile: what compile_rules_from_pgr returned or raised
    cStore,      \* SpecCompile: the artifact Graph objects
    cRun,        \* SpecCompile: the last call of a rewrite function and its results
    cApplied,    \* SpecCompile: number of calls of rewrite functions
    rdArgs,      \* SpecReduce: reduce_threshold's arguments samples, epsilon, reducer
    rdResult,    \* SpecReduce: what reduce_threshold returned or raised
    apArgs,      \* SpecPolicy: default_accept_policy's arguments before, after
    apResult,    \* SpecPolicy: "none" before the call, then the decision
    bRg,         \* SpecBuilder: the rule graph object the caller and the synthesizer share
    bRg0,        \* SpecBuilder: the rule graph at entry of the current call
    bArgs,       \* SpecBuilder: the other arguments of propose_and_eval_guard
    bPc,         \* SpecBuilder: the statement the call is at, "idle" outside a call
    bLoc,        \* SpecBuilder: the call's local variables
    bLog,        \* SpecBuilder: the calls made by the current call, in order
    bRet,        \* SpecBuilder: what the last call returned or raised
    bOps         \* SpecBuilder: numbers of schema-helper calls and synthesizer calls

graphVars == <<graphs, heap, origin, last, nops>>

guardVars == <<gdGraph, gdEnv, gdGuards, gdResult>>

matchVars == <<mtGraph, mtVars, mtEnvs, mtEnvsStd, mtDone>>

ruleVars == <<rg, rgPrev, rgCalls>>

searchVars ==
    <<sArgs, sPc, sIter, sRng, sBeam, sBest, sSeen, sMemo, sCands, sProv, sEvals, sSelected,
      sApplied, sOccurred, sCall, sFirst>>

compileVars == <<cRg, cRegistry, cResult, cStore, cRun, cApplied>>

reduceVars == <<rdArgs, rdResult>>

policyVars == <<apArgs, apResult>>

synthVars == <<bRg, bRg0, bArgs, bPc, bLoc, bLog, bRet, bOps>>

builderVars == <<reduceVars, policyVars, synthVars>>

vars == <<graphVars, guardVars, matchVars, ruleVars, searchVars, compileVars, builderVars>>

notGraphVars == <<guardVars, matchVars, ruleVars, searchVars, compileVars, builderVars>>

notGuardVars == <<graphVars, matchVars, ruleVars, searchVars, compileVars, builderVars>>

notMatchVars == <<graphVars, guardVars, ruleVars, searchVars, compileVars, builderVars>>

notRuleVars == <<graphVars, guardVars, matchVars, searchVars, compileVars, builderVars>>

notSearchVars == <<graphVars, guardVars, matchVars, ruleVars, compileVars, builderVars>>

notCompileVars == <<graphVars, guardVars, matchVars, ruleVars, searchVars, builderVars>>

notBuilderVars == <<graphVars, guardVars, matchVars, ruleVars, searchVars, compileVars>>

(***************************************************************************)
(* Bounds of the model.                                                    *)
(***************************************************************************)
MaxOps == 3

(***************************************************************************)
(* Python values.                                                          *)
(***************************************************************************)
IntV(n) == [t |-> "int", n |-> n, s |-> ""]

StrV(s) == [t |-> "str", n |-> 0, s |-> s]

NoneV == [t |-> "none", n |-> 0, s |-> ""]

RefV(r) == [t |-> "ref", n |-> r, s |-> ""]

\* A float, n being its value in hundredths.
FloatV(h) == [t |-> "float", n |-> h, s |-> ""]

IsNum(v) == v.t \in {"int", "float"}

\* The value of a number, in hundredths.
Num(v) == IF v.t = "int" THEN 100 * v.n ELSE v.n

\* Code-point order of the strings the model uses (Python's str ordering).
StrOrder == <<"T", "U", "a", "ab", "b", "has", "j", "k", "l", "u1", "u2", "u3", "x", "y">>

Rank(s) == CHOOSE i \in 1..Len(StrOrder) : StrOrder[i] = s

StrLess(a, b) == Rank(a) < Rank(b)

\* sorted(): a stable sort of s, key[i] being the integer rank of s[i].
Sorted(s, key) ==
    LET n == Len(s)
        Pos(i) == Cardinality({j \in 1..n :
                      key[j] < key[i] \/ (key[j] = key[i] /\ j < i)}) + 1
    IN  [p \in 1..n |-> s[CHOOSE i \in 1..n : Pos(i) = p]]

(***************************************************************************)
(* Python dict: insertion-ordered, assignment to a present key keeps its   *)
(* position.                                                               *)
(***************************************************************************)
DictHas(d, k) == \E i \in 1..Len(d) : d[i].k = k

DictGet(d, k) == d[CHOOSE i \in 1..Len(d) : d[i].k = k].v

DictSet(d, k, v) ==
    IF DictHas(d, k)
    THEN [i \in 1..Len(d) |-> IF d[i].k = k THEN [k |-> k, v |-> v] ELSE d[i]]
    ELSE Append(d, [k |-> k, v |-> v])

DictDel(d, k) == SelectSeq(d, LAMBDA e : e.k # k)

DictKeys(d) == [i \in 1..Len(d) |-> d[i].k]

\* dict.update(u) / dict(u): the entries of u written in u's order.
RECURSIVE DictUpdate(_, _)
DictUpdate(d, u) ==
    IF u = <<>> THEN d
    ELSE DictUpdate(DictSet(d, Head(u).k, Head(u).v), Tail(u))

(***************************************************************************)
(* kernel.Graph                                                            *)
(***************************************************************************)
EmptyGraph == [nodes |-> <<>>, edges |-> <<>>]

\* Stand-in for AddNode: a node that is present keeps its properties and
\* takes the new ones on top.
AddNodeMerging(g, nid, ntype, props) ==
    [g EXCEPT !.nodes = DictSet(@, nid,
        [type |-> ntype,
         props |-> DictUpdate(IF DictHas(@, nid) THEN DictGet(@, nid).props ELSE <<>>, props)])]

AddNode(g, nid, ntype, props) ==
    [g EXCEPT !.nodes = DictSet(@, nid, [type |-> ntype, props |-> DictUpdate(<<>>, props)])]

AddEdge(g, src, etype, dst) ==
    [g EXCEPT !.edges = Append(@, <<src, etype, dst>>)]

HasNode(g, nid) == DictHas(g.nodes, nid)

Find(g, ntype) ==
    DictKeys(SelectSeq(g.nodes, LAMBDA e : e.v.type = ntype))

Props(g, nid) == DictGet(g.nodes, nid).props

SetProps(g, nid, updates) ==
    [g EXCEPT !.nodes = DictSet(@, nid,
        [type |-> DictGet(@, nid).type, props |-> DictUpdate(DictGet(@, nid).props, updates)])]

\* etype = "" stands for None: all edge types.
Neighbors(g, nid, etype) ==
    LET out == SelectSeq(g.edges, LAMBDA e : e[1] = nid /\ (etype = "" \/ e[2] = etype))
    IN  [i \in 1..Len(out) |-> out[i][3]]

\* A new nodes dict, a new {"type", "props"} dict per node, a new props dict
\* holding the same values (a container value stays the same heap object), and
\* a new edge list.
Clone(g) ==
    [nodes |-> [i \in 1..Len(g.nodes) |->
                  [k |-> g.nodes[i].k,
                   v |-> [type |-> g.nodes[i].v.type,
                          props |-> DictUpdate(<<>>, g.nodes[i].v.props)]]],
     edges |-> [i \in 1..Len(g.edges) |-> g.edges[i]]]

\* to_json: the document {"nodes": ..., "edges": ...}.
ToJson(g) == [nodes |-> g.nodes, edges |-> g.edges]

\* Mutant of FromJson: the edge array is read back to front.
FromJsonReversedEdges(obj) ==
    [nodes |-> [i \in 1..Len(obj.nodes) |->
                  [k |-> obj.nodes[i].k,
                   v |-> [type |-> obj.nodes[i].v.type,
                          props |-> DictUpdate(<<>>, obj.nodes[i].v.props)]]],
     edges |-> [i \in 1..Len(obj.edges) |-> obj.edges[Len(obj.edges) + 1 - i]]]

\* from_json: a new nodes dict, a new {"type", "props"} dict per node with a
\* new props dict of the same values, and a new list of the edge tuples.
FromJson(obj) ==
    [nodes |-> [i \in 1..Len(obj.nodes) |->
                  [k |-> obj.nodes[i].k,
                   v |-> [type |-> obj.nodes[i].v.type,
                          props |-> DictUpdate(<<>>, obj.nodes[i].v.props)]]],
     edges |-> [i \in 1..Len(obj.edges) |-> obj.edges[i]]]

(***************************************************************************)
(* Graph.signature and _jsonish.  The heap hp resolves container values.   *)
(* A normalised value is [t, n, s, items]; json.dumps writes a list and a  *)
(* tuple alike as an array, so both are "arr".  The SHA-256 digest is      *)
(* taken to be injective on the payload: the signature is the payload.     *)
(***************************************************************************)
\* sorted(v) of a set of numbers and sorted(v.items()) of a dict.
ItemsByNum(items) == Sorted(items, [i \in 1..Len(items) |-> items[i].n])

ItemsByKey(items) == Sorted(items, [i \in 1..Len(items) |-> Rank(items[i].k)])

\* Mutant of Jsonish: the payload of a scalar is lost.
JsonishNoPayload(v, hp) ==
    IF v.t = "ref"
    THEN [t |-> "arr", n |-> 0, s |-> "", items |-> hp[v.n].items]
    ELSE [t |-> v.t, n |-> 0, s |-> "", items |-> <<>>]

Jsonish(v, hp) ==
    IF v.t = "ref"
    THEN LET o == hp[v.n]
         IN  CASE o.kind = "dict" ->
                    [t |-> "obj", n |-> 0, s |-> "", items |-> ItemsByKey(o.items)]
               [] o.kind \in {"list", "tuple"} ->
                    [t |-> "arr", n |-> 0, s |-> "", items |-> o.items]
               [] o.kind = "set" ->
                    [t |-> "arr", n |-> 0, s |-> "", items |-> ItemsByNum(o.items)]
    ELSE [t |-> v.t, n |-> v.n, s |-> v.s, items |-> <<>>]

\* sorted() of a dict's keys (node ids, property keys).
EntriesByKey(d) == Sorted(d, [i \in 1..Len(d) |-> Rank(d[i].k)])

\* sorted(self.edges): tuples of str compare lexicographically.
EdgeRank(e) ==
    LET b == Len(StrOrder) + 1
    IN  (Rank(e[1]) * b + Rank(e[2])) * b + Rank(e[3])

SortedEdges(edges) == Sorted(edges, [i \in 1..Len(edges) |-> EdgeRank(edges[i])])

PropsTuple(props, hp) ==
    LET sp == EntriesByKey(props)
    IN  [i \in 1..Len(sp) |-> <<sp[i].k, Jsonish(sp[i].v, hp)>>]

\* Mutant of Signature: the edge list is not sorted.
SignatureUnsortedEdges(g, hp) ==
    LET sn == EntriesByKey(g.nodes)
    IN  [n |-> [i \in 1..Len(sn) |-> <<sn[i].k, sn[i].v.type, PropsTuple(sn[i].v.props, hp)>>],
         e |-> g.edges]

Signature(g, hp) ==
    LET sn == EntriesByKey(g.nodes)
    IN  [n |-> [i \in 1..Len(sn) |-> <<sn[i].k, sn[i].v.type, PropsTuple(sn[i].v.props, hp)>>],
         e |-> SortedEdges(g.edges)]

(***************************************************************************)
(* SpecGraph: a caller working on a Graph g and on a second Graph h that   *)
(* is a fresh Graph(), g.clone(), or Graph.from_json of g's document.      *)
(***************************************************************************)
NodeIds == {"a", "b"}

NodeTypes == {"T", "U"}

PropKeys == {"j", "k"}

EdgeChoices == {<<"a", "l", "b">>, <<"b", "l", "a">>}

Item(n) == [k |-> "", n |-> n]

\* The containers the caller holds: a list, a tuple and a set of the same items.
InitHeap ==
    <<[kind |-> "list",  items |-> <<Item(1), Item(2)>>],
      [kind |-> "tuple", items |-> <<Item(1), Item(2)>>],
      [kind |-> "set",   items |-> <<Item(2), Item(1)>>]>>

ValueChoices == {IntV(1), IntV(2), RefV(1), RefV(2), RefV(3)}

KwargsChoices == {<<>>, <<[k |-> "k", v |-> RefV(1)]>>}

Reverse(s) == [i \in 1..Len(s) |-> s[Len(s) + 1 - i]]

\* The document of g as an external writer may lay it out: JSON object members
\* and the caller's edge array in either order.
Reordered(doc, rn, rp, re) ==
    LET ns == [i \in 1..Len(doc.nodes) |->
                 [k |-> doc.nodes[i].k,
                  v |-> [type |-> doc.nodes[i].v.type,
                         props |-> IF rp THEN Reverse(doc.nodes[i].v.props)
                                   ELSE doc.nodes[i].v.props]]]
    IN  [nodes |-> IF rn THEN Reverse(ns) ELSE ns,
         edges |-> IF re THEN Reverse(doc.edges) ELSE doc.edges]

GraphStart ==
    /\ graphs = [x \in {"g", "h"} |-> EmptyGraph]
    /\ heap = InitHeap
    /\ origin = "none"
    /\ last = [op |-> "init", on |-> "g"]
    /\ nops = 0

\* The state of the predicate's caller while another component is looked at.
GuardIdle ==
    /\ gdGraph = EmptyGraph
    /\ gdEnv = <<>>
    /\ gdGuards = <<>>
    /\ gdResult = "none"

MatchIdle ==
    /\ mtGraph = EmptyGraph
    /\ mtVars = <<>>
    /\ mtEnvs = <<>>
    /\ mtEnvsStd = <<>>
    /\ mtDone = {}

RulesIdle ==
    /\ rg = EmptyGraph
    /\ rgPrev = EmptyGraph
    /\ rgCalls = <<>>

SearchIdle ==
    /\ sArgs = <<>>
    /\ sPc = "idle"
    /\ sIter = 0
    /\ sRng = 0
    /\ sBeam = <<>>
    /\ sBest = <<>>
    /\ sSeen = {}
    /\ sMemo = <<>>
    /\ sCands = <<>>
    /\ sProv = <<>>
    /\ sEvals = <<>>
    /\ sSelected = {}
    /\ sApplied = 0
    /\ sOccurred = {}
    /\ sCall = 0
    /\ sFirst = <<>>

CompileIdle ==
    /\ cRg = EmptyGraph
    /\ cRegistry = {}
    /\ cResult = [status |-> "none", fns |-> <<>>]
    /\ cStore = <<>>
    /\ cRun = [fn |-> 0, on |-> 0, status |-> "none", outs |-> <<>>]
    /\ cApplied = 0

ReduceIdle ==
    /\ rdArgs = <<>>
    /\ rdResult = [status |-> "idle"]

PolicyIdle ==
    /\ apArgs = <<>>
    /\ apResult = "idle"

SynthIdle ==
    /\ bRg = EmptyGraph
    /\ bRg0 = EmptyGraph
    /\ bArgs = <<>>
    /\ bPc = "off"
    /\ bLoc = <<>>
    /\ bLog = <<>>
    /\ bRet = [status |-> "none"]
    /\ bOps = [installs |-> 0, calls |-> 0]

BuilderIdle == ReduceIdle /\ PolicyIdle /\ SynthIdle

GraphInit ==
    GraphStart /\ GuardIdle /\ MatchIdle /\ RulesIdle /\ SearchIdle /\ CompileIdle /\ BuilderIdle

Targets == IF origin = "none" THEN {"g"} ELSE {"g", "h"}

Done(op, x) ==
    /\ last' = [op |-> op, on |-> x]
    /\ nops' = nops + 1

GAddNode ==
    \E x \in Targets, nid \in NodeIds, ty \in NodeTypes, kw \in KwargsChoices :
        /\ nops < MaxOps
        /\ graphs' = [graphs EXCEPT ![x] = AddNode(@, nid, ty, kw)]
        /\ Done("add_node", x)
        /\ UNCHANGED <<heap, origin, notGraphVars>>

GAddEdge ==
    \E x \in Targets, e \in EdgeChoices :
        /\ nops < MaxOps
        /\ graphs' = [graphs EXCEPT ![x] = AddEdge(@, e[1], e[2], e[3])]
        /\ Done("add_edge", x)
        /\ UNCHANGED <<heap, origin, notGraphVars>>

\* set_props on an absent node raises KeyError and changes nothing.
GSetProps ==
    \E x \in Targets, nid \in NodeIds, key \in PropKeys, v \in ValueChoices :
        /\ nops < MaxOps
        /\ HasNode(graphs[x], nid)
        /\ graphs' = [graphs EXCEPT ![x] = SetProps(@, nid, <<[k |-> key, v |-> v]>>)]
        /\ Done("set_props", x)
        /\ UNCHANGED <<heap, origin, notGraphVars>>

\* g.props(nid)[key].append(3): a write inside a property value that is a list.
GNestedWrite ==
    \E x \in Targets, nid \in NodeIds, key \in PropKeys :
        /\ nops < MaxOps
        /\ HasNode(graphs[x], nid)
        /\ DictHas(Props(graphs[x], nid), key)
        /\ LET v == DictGet(Props(graphs[x], nid), key)
           IN  /\ v.t = "ref"
               /\ heap[v.n].kind = "list"
               /\ heap' = [heap EXCEPT ![v.n].items = Append(@, Item(3))]
        /\ Done("nested_write", x)
        /\ UNCHANGED <<graphs, origin, notGraphVars>>

\* del g.nodes[nid] and the removal of the edges touching it.
GDelNode ==
    \E x \in Targets, nid \in NodeIds :
        /\ nops < MaxOps
        /\ HasNode(graphs[x], nid)
        /\ graphs' = [graphs EXCEPT ![x] =
               [nodes |-> DictDel(@.nodes, nid),
                edges |-> SelectSeq(@.edges, LAMBDA e : e[1] # nid /\ e[3] # nid)]]
        /\ Done("del_node", x)
        /\ UNCHANGED <<heap, origin, notGraphVars>>

GNew ==
    /\ origin = "none"
    /\ origin' = "new"
    /\ graphs' = [graphs EXCEPT !["h"] = EmptyGraph]
    /\ last' = [op |-> "new", on |-> "h"]
    /\ UNCHANGED <<heap, nops, notGraphVars>>

GClone ==
    /\ origin = "none"
    /\ origin' = "clone"
    /\ graphs' = [graphs EXCEPT !["h"] = Clone(graphs["g"])]
    /\ last' = [op |-> "clone", on |-> "h"]
    /\ UNCHANGED <<heap, nops, notGraphVars>>

GFromJson ==
    \E rn \in BOOLEAN, rp \in BOOLEAN, re \in BOOLEAN :
        /\ origin = "none"
        /\ origin' = IF rn \/ rp \/ re THEN "json" ELSE "round_trip"
        /\ graphs' = [graphs EXCEPT !["h"] = FromJson(Reordered(ToJson(graphs["g"]), rn, rp, re))]
        /\ last' = [op |-> "from_json", on |-> "h"]
        /\ UNCHANGED <<heap, nops, notGraphVars>>

GraphNext ==
    \/ GAddNode
    \/ GAddEdge
    \/ GSetProps
    \/ GNestedWrite
    \/ GDelNode
    \/ GNew
    \/ GClone
    \/ GFromJson

SpecGraph == GraphInit /\ [][GraphNext]_vars

(***************************************************************************)
(* What the claims about Graph compare.                                    *)
(***************************************************************************)
G == graphs["g"]

H == graphs["h"]

\* A property value as Python's == sees it: a list and a tuple differ, a set
\* has no order.
DeepVal(v, hp) ==
    IF v.t = "ref"
    THEN [t |-> hp[v.n].kind, n |-> 0, s |-> "",
          items |-> IF hp[v.n].kind \in {"set", "dict"}
                    THEN {hp[v.n].items[i] : i \in 1..Len(hp[v.n].items)}
                    ELSE {<<i, hp[v.n].items[i]>> : i \in 1..Len(hp[v.n].items)}]
    ELSE [t |-> v.t, n |-> v.n, s |-> v.s, items |-> {}]

\* A property value up to the normalisation of section 3: sequences (lists and
\* tuples) keep their order, a set is the sequence of its items in ascending
\* order, a mapping has no order.
NormVal(v, hp) ==
    IF v.t = "ref"
    THEN LET o == hp[v.n]
             ranked == {<<Cardinality({j \in 1..Len(o.items) : o.items[j].n < o.items[i].n}) + 1,
                          o.items[i]>> : i \in 1..Len(o.items)}
         IN  [t |-> IF o.kind = "dict" THEN "mapping" ELSE "sequence", n |-> 0, s |-> "",
              items |-> CASE o.kind = "dict" -> {o.items[i] : i \in 1..Len(o.items)}
                          [] o.kind = "set" -> ranked
                          [] OTHER -> {<<i, o.items[i]>> : i \in 1..Len(o.items)}]
    ELSE [t |-> v.t, n |-> v.n, s |-> v.s, items |-> {}]

\* The nodes of g as a set: id, type and the property map, values seen by Val.
NodeContent(g, hp, normalised) ==
    {<<g.nodes[i].k, g.nodes[i].v.type,
       {<<g.nodes[i].v.props[j].k,
          IF normalised THEN NormVal(g.nodes[i].v.props[j].v, hp)
          ELSE DeepVal(g.nodes[i].v.props[j].v, hp)>> :
            j \in 1..Len(g.nodes[i].v.props)}>> : i \in 1..Len(g.nodes)}

EdgeSet(g) == {g.edges[i] : i \in 1..Len(g.edges)}

EdgeBag(g) == [e \in EdgeSet(g) |-> Cardinality({i \in 1..Len(g.edges) : g.edges[i] = e})]

DeepView(g, hp) == [nodes |-> NodeContent(g, hp, FALSE), ids |-> DictKeys(g.nodes), edges |-> g.edges]

SigEq == Signature(G, heap) = Signature(H, heap)

\* C4 (as claimed): after h = g.clone(), an operation on h leaves every node,
\* property value (read through nested containers) and edge of g unchanged,
\* and an operation on g leaves those of h unchanged.
C4_CloneIsolation ==
    [][(origin = "clone" /\ nops' = nops + 1) =>
          /\ (last'.on = "h" => DeepView(graphs'["g"], heap') = DeepView(graphs["g"], heap))
          /\ (last'.on = "g" => DeepView(graphs'["h"], heap') = DeepView(graphs["h"], heap))]_vars

\* C5 (as claimed): signature(G) = signature(clone(G)); the signature does not
\* depend on insertion order; it differs whenever a node id, a type, a property
\* value (compared as Python values) or an edge triple differs.
C5_SignatureRawValues ==
    origin # "none" =>
        /\ (last.op = "clone" => SigEq)
        /\ (NodeContent(G, heap, FALSE) = NodeContent(H, heap, FALSE) /\ EdgeBag(G) = EdgeBag(H))
              => SigEq
        /\ (NodeContent(G, heap, FALSE) # NodeContent(H, heap, FALSE) \/ EdgeBag(G) # EdgeBag(H))
              => ~SigEq

\* C5 (amended): signature(G) = signature(clone(G)); two graphs have the same
\* signature exactly when they have the same node ids, types, normalised
\* property values and the same multiset of edge triples, whatever the
\* insertion order of nodes, keys and edges.
C5_SignatureDeterminism ==
    origin # "none" =>
        /\ (last.op = "clone" => SigEq)
        /\ (NodeContent(G, heap, TRUE) = NodeContent(H, heap, TRUE) /\ EdgeBag(G) = EdgeBag(H))
              <=> SigEq

\* C5 witness: h was parsed from g's document laid out in another order of
\* nodes and of keys, and has g's signature; the graphs hold a property.
C5_Witness ==
    /\ last.op = "from_json"
    /\ DictKeys(G.nodes) # DictKeys(H.nodes)
    /\ \E i \in 1..Len(G.nodes) :
          /\ Len(G.nodes[i].v.props) = 2
          /\ Props(H, G.nodes[i].k) # G.nodes[i].v.props
    /\ SigEq

\* C6 (as claimed): identical nodes (ids, types, normalised properties) and
\* identical edge sets give identical signatures.
C6_SameEdgeSet ==
    (origin # "none" /\ NodeContent(G, heap, TRUE) = NodeContent(H, heap, TRUE)
        /\ EdgeSet(G) = EdgeSet(H)) => SigEq

\* C6 (amended): identical nodes (ids, types, normalised properties) and
\* identical multisets of edge triples give identical signatures.
C6_SameEdgeBag ==
    (origin # "none" /\ NodeContent(G, heap, TRUE) = NodeContent(H, heap, TRUE)
        /\ EdgeBag(G) = EdgeBag(H)) => SigEq

\* C6 witness: two graphs holding the same two edges in different list order,
\* and the same node, have one signature.
C6_Witness ==
    /\ origin # "none"
    /\ Len(G.edges) = 2
    /\ G.edges[1] # G.edges[2]
    /\ H.edges = Reverse(G.edges)
    /\ G.nodes # <<>>
    /\ NodeContent(G, heap, TRUE) = NodeContent(H, heap, TRUE)
    /\ SigEq

\* h = Graph.from_json(g.to_json()) has g's node ids, types and property
\* values, g's edge triples in g's order, and g's signature.
RoundTripEqual ==
    /\ {H.nodes[i].k : i \in 1..Len(H.nodes)} = {G.nodes[i].k : i \in 1..Len(G.nodes)}
    /\ NodeContent(H, heap, FALSE) = NodeContent(G, heap, FALSE)
    /\ H.edges = G.edges
    /\ SigEq

\* The operations on a graph's node set, top-level properties and edge list.
TopLevelWrites == {"add_node", "del_node", "set_props", "add_edge"}

Did(op, x) == nops' # nops /\ last'.op = op /\ last'.on = x

\* neighbors(nid, label) on g holds each destination as often as g has edges
\* from nid to it with the label ("" for no label given), and nothing else.
NeighborsExact(g, nid, label) ==
    \A d \in NodeIds \cup {Neighbors(g, nid, label)[i] : i \in 1..Len(Neighbors(g, nid, label))} :
        Cardinality({i \in 1..Len(Neighbors(g, nid, label)) : Neighbors(g, nid, label)[i] = d})
          = Cardinality({i \in 1..Len(g.edges) :
                            /\ g.edges[i][1] = nid
                            /\ g.edges[i][3] = d
                            /\ (label = "" \/ g.edges[i][2] = label)})

\* C33: add_node leaves the edge list, the other nodes and the order of the
\* ids as they were, and the node of the id, new or present, has the type and
\* exactly the properties of the call; add_edge appends its triple to the
\* edge list, whatever nodes and edges there are, and leaves the nodes; and
\* neighbors returns the destinations of the outbound edges of the label.
C33_GraphPrimitives ==
    /\ [][\A x \in {"g", "h"} :
             /\ Did("add_node", x) =>
                    /\ graphs'[x].edges = graphs[x].edges
                    /\ \E nid \in NodeIds, ty \in NodeTypes, kw \in KwargsChoices :
                           /\ DictKeys(graphs'[x].nodes)
                                 = IF HasNode(graphs[x], nid) THEN DictKeys(graphs[x].nodes)
                                   ELSE Append(DictKeys(graphs[x].nodes), nid)
                           /\ DictGet(graphs'[x].nodes, nid) = [type |-> ty, props |-> kw]
                           /\ \A m \in 1..Len(graphs[x].nodes) :
                                  graphs[x].nodes[m].k # nid =>
                                      DictGet(graphs'[x].nodes, graphs[x].nodes[m].k) = graphs[x].nodes[m].v
             /\ Did("add_edge", x) =>
                    /\ graphs'[x].nodes = graphs[x].nodes
                    /\ \E e \in EdgeChoices : graphs'[x].edges = Append(graphs[x].edges, e)]_vars
    /\ [](\A x \in {"g", "h"}, nid \in NodeIds, label \in {"", "l", "m"} :
              NeighborsExact(graphs[x], nid, label))

\* C33 witness: the same edge was added twice to a graph that lacks its
\* destination node; neighbors of the source holds the destination twice,
\* neighbors of the destination is empty.
C33_Witness ==
    /\ last = [op |-> "add_edge", on |-> "g"]
    /\ G.edges = <<<<"a", "l", "b">>, <<"a", "l", "b">>>>
    /\ HasNode(G, "a")
    /\ ~HasNode(G, "b")
    /\ Neighbors(G, "a", "l") = <<"b", "b">>
    /\ Neighbors(G, "b", "") = <<>>

(***************************************************************************)
(* compiler.py: _op_eval and make_guard_predicate.  A call returns "true"  *)
(* or "false", or raises ("raise").                                        *)
(***************************************************************************)
Bool(b) == IF b THEN "true" ELSE "false"

\* dict.get(k, default)
DictGetOr(d, k, default) == IF DictHas(d, k) THEN DictGet(d, k) ELSE default

\* The strings guards compare, with every substring of them.
GuardStrings == {"", "a", "b", "ab"}

\* bool(v)
PyTruth(v, hp) ==
    CASE IsNum(v) -> v.n # 0
      [] v.t = "str" -> v.s # ""
      [] v.t = "none" -> FALSE
      [] v.t = "ref" -> hp[v.n].items # <<>>

\* a == b: never raises; numbers compare by value, other values of different
\* types are unequal.
PyEq(a, b, hp) ==
    IF IsNum(a) /\ IsNum(b) THEN Num(a) = Num(b)
    ELSE
    /\ a.t = b.t
    /\ IF a.t = "ref"
       THEN /\ hp[a.n].kind = hp[b.n].kind
            /\ IF hp[a.n].kind \in {"set", "dict"}
               THEN {hp[a.n].items[i] : i \in 1..Len(hp[a.n].items)}
                      = {hp[b.n].items[i] : i \in 1..Len(hp[b.n].items)}
               ELSE hp[a.n].items = hp[b.n].items
       ELSE a.n = b.n /\ a.s = b.s

\* Lexicographic a < b on sequences of numbers.
RECURSIVE SeqLess(_, _)
SeqLess(a, b) ==
    IF b = <<>> THEN FALSE
    ELSE IF a = <<>> THEN TRUE
    ELSE IF Head(a).n # Head(b).n THEN Head(a).n < Head(b).n
    ELSE SeqLess(Tail(a), Tail(b))

\* a < b: "raise" is TypeError ('<' not supported between these types).
PyLess(a, b, hp) ==
    CASE IsNum(a) /\ IsNum(b) -> Bool(Num(a) < Num(b))
      [] a.t = "str" /\ b.t = "str" -> Bool(StrLess(a.s, b.s))
      [] a.t = "ref" /\ b.t = "ref" ->
            IF hp[a.n].kind = hp[b.n].kind /\ hp[a.n].kind \in {"list", "tuple"}
            THEN Bool(SeqLess(hp[a.n].items, hp[b.n].items))
            ELSE IF hp[a.n].kind = "set" /\ hp[b.n].kind = "set"
            THEN Bool(LET sa == {hp[a.n].items[i] : i \in 1..Len(hp[a.n].items)}
                          sb == {hp[b.n].items[i] : i \in 1..Len(hp[b.n].items)}
                      IN  sa \subseteq sb /\ sa # sb)
            ELSE "raise"
      [] OTHER -> "raise"

PyLessEq(a, b, hp) ==
    IF PyLess(a, b, hp) = "raise" THEN "raise"
    ELSE Bool(PyLess(a, b, hp) = "true" \/ PyEq(a, b, hp))

\* a in b: "raise" is TypeError (b not iterable, a not a str for a str b, or
\* a unhashable for a set or dict b).
PyIn(a, b, hp) ==
    CASE b.t = "str" ->
            IF a.t = "str"
            THEN Bool(\E p \in GuardStrings, q \in GuardStrings : p \o a.s \o q = b.s)
            ELSE "raise"
      [] b.t = "ref" ->
            IF hp[b.n].kind \in {"set", "dict"} /\ a.t = "ref" /\ hp[a.n].kind # "tuple"
            THEN "raise"
            ELSE IF hp[b.n].kind = "dict"
            THEN Bool(a.t = "str" /\ \E i \in 1..Len(hp[b.n].items) : hp[b.n].items[i].k = a.s)
            ELSE Bool(IsNum(a) /\ \E i \in 1..Len(hp[b.n].items) :
                         100 * hp[b.n].items[i].n = Num(a))
      [] OTHER -> "raise"

Negate(r) == IF r = "raise" THEN "raise" ELSE Bool(r = "false")

GuardOps == {"<", "<=", ">", ">=", "==", "!=", "in", "notin", "exists"}

OpEval(lhs, op, rhs, hp) ==
    CASE op = "<" -> PyLess(lhs, rhs, hp)
      [] op = "<=" -> PyLessEq(lhs, rhs, hp)
      [] op = ">" -> PyLess(rhs, lhs, hp)
      [] op = ">=" -> PyLessEq(rhs, lhs, hp)
      [] op = "==" -> Bool(PyEq(lhs, rhs, hp))
      [] op = "!=" -> Bool(~PyEq(lhs, rhs, hp))
      [] op = "in" -> PyIn(lhs, rhs, hp)
      [] op = "notin" -> Negate(PyIn(lhs, rhs, hp))
      [] op = "exists" -> Bool(PyTruth(lhs, hp))
      [] OTHER -> "raise"

\* Mutant of Caught: the exception escapes.
Uncaught(r) == r

\* try: ... except Exception: return False
Caught(r) == IF r = "raise" THEN "false" ELSE r

\* The value g.props(nid) indexes: KeyError ("raise") when nid is not a node.
PropsOrRaise(g, nid) == IF HasNode(g, nid) THEN "ok" ELSE "raise"

\* One pass of pred's loop body on guard gd: "true" lets the loop go on.
GuardStep(gd, g, env, hp) ==
    LET var == DictGetOr(gd, "var", NoneV)
        key == DictGetOr(gd, "key", NoneV)
        op  == DictGetOr(gd, "op", NoneV)
        rhs == DictGetOr(gd, "value", NoneV)
    IN  IF var.t = "none"
        THEN Caught(OpEval(NoneV, op.s, rhs, hp))
        ELSE IF ~DictHas(env, var.s) \/ ~HasNode(g, DictGet(env, var.s))
        THEN "false"
        ELSE IF PropsOrRaise(g, DictGet(env, var.s)) = "raise"
        THEN "raise"
        ELSE Caught(OpEval(DictGetOr(Props(g, DictGet(env, var.s)), key.s, NoneV), op.s, rhs, hp))

\* Mutant of GuardPred: one passing guard is enough.
RECURSIVE GuardPredAny(_, _, _, _)
GuardPredAny(guards, g, env, hp) ==
    IF guards = <<>> THEN "true"
    ELSE IF GuardStep(Head(guards), g, env, hp) = "true" \/ Tail(guards) = <<>>
    THEN GuardStep(Head(guards), g, env, hp)
    ELSE GuardPredAny(Tail(guards), g, env, hp)

\* pred(g, env) of make_guard_predicate(guards).
RECURSIVE GuardPred(_, _, _, _)
GuardPred(guards, g, env, hp) ==
    IF guards = <<>> THEN "true"
    ELSE IF GuardStep(Head(guards), g, env, hp) = "true"
    THEN GuardPred(Tail(guards), g, env, hp)
    ELSE GuardStep(Head(guards), g, env, hp)

(***************************************************************************)
(* SpecGuard: the predicate of a guard list is called once on a graph and  *)
(* a binding.                                                              *)
(***************************************************************************)
MaxGuards == 2

\* The Guard node props add_guard writes.
GuardProps(var, key, op, value) ==
    <<[k |-> "var", v |-> var], [k |-> "key", v |-> StrV(key)],
      [k |-> "op", v |-> StrV(op)], [k |-> "value", v |-> value]>>

GuardChoices ==
    {GuardProps(var, "k", op, value) :
        var \in {StrV("x"), NoneV},
        op \in GuardOps \cup {"~"},
        value \in {IntV(1), StrV("a")}}
    \cup {GuardProps(StrV("x"), "k", op, RefV(1)) : op \in {"in", "notin"}}

GuardLists == UNION {[1..n -> GuardChoices] : n \in 0..MaxGuards}

\* Node "a" with k an int, zero, a str or missing; node "b" is never in the
\* graph.
GuardGraphs ==
    {AddNode(EmptyGraph, "a", "T", kw) :
        kw \in {<<>>, <<[k |-> "k", v |-> IntV(1)]>>, <<[k |-> "k", v |-> IntV(0)]>>,
                <<[k |-> "k", v |-> StrV("a")]>>}}

GuardEnvs == {<<>>, <<[k |-> "x", v |-> "a"]>>, <<[k |-> "x", v |-> "b"]>>}

GuardInit ==
    /\ gdGraph \in GuardGraphs
    /\ gdEnv \in GuardEnvs
    /\ gdGuards \in GuardLists
    /\ gdResult = "none"
    /\ GraphStart
    /\ MatchIdle
    /\ RulesIdle
    /\ SearchIdle
    /\ CompileIdle
    /\ BuilderIdle

GuardCall ==
    /\ gdResult = "none"
    /\ gdResult' = GuardPred(gdGuards, gdGraph, gdEnv, InitHeap)
    /\ UNCHANGED <<gdGraph, gdEnv, gdGuards, notGuardVars>>

GuardNext == GuardCall

SpecGuard == GuardInit /\ [][GuardNext]_vars

\* Guard i names a variable that env does not bind.
Unbound(i) ==
    /\ DictGetOr(gdGuards[i], "var", NoneV).t # "none"
    /\ ~DictHas(gdEnv, DictGetOr(gdGuards[i], "var", NoneV).s)

\* Guard i names a variable bound to a node id that is not in the graph.
NodeAbsent(i) ==
    /\ DictGetOr(gdGuards[i], "var", NoneV).t # "none"
    /\ DictHas(gdEnv, DictGetOr(gdGuards[i], "var", NoneV).s)
    /\ ~HasNode(gdGraph, DictGet(gdEnv, DictGetOr(gdGuards[i], "var", NoneV).s))

\* The comparison of guard i raises: ill-typed operands, a missing property
\* (None) in an ordering or membership test, or an unsupported operator.
ComparisonRaises(i) ==
    LET var == DictGetOr(gdGuards[i], "var", NoneV)
        lhs == IF var.t = "none" THEN NoneV
               ELSE DictGetOr(Props(gdGraph, DictGet(gdEnv, var.s)),
                              DictGet(gdGuards[i], "key").s, NoneV)
    IN  /\ ~Unbound(i)
        /\ ~NodeAbsent(i)
        /\ OpEval(lhs, DictGet(gdGuards[i], "op").s, DictGet(gdGuards[i], "value"), InitHeap)
              = "raise"

\* C7: the guard predicate never raises, and it returns false whenever some
\* guard's variable is unbound, or bound to a node absent from the graph, or
\* its comparison raises.
C7_GuardFailClosed ==
    gdResult # "none" =>
        /\ gdResult \in {"true", "false"}
        /\ (\E i \in 1..Len(gdGuards) : Unbound(i) \/ NodeAbsent(i) \/ ComparisonRaises(i))
              => gdResult = "false"

\* C7 witness: the first guard passes, the second guard's comparison raises,
\* and the predicate has returned false.
C7_Witness ==
    /\ Len(gdGuards) = 2
    /\ GuardStep(gdGuards[1], gdGraph, gdEnv, InitHeap) = "true"
    /\ ComparisonRaises(2)
    /\ gdResult = "false"

\* Guard i is an atomic test of the claimed form: it names a variable and
\* one of the nine operators.
Atomic(i) ==
    /\ DictGet(gdGuards[i], "var").t = "str"
    /\ DictGet(gdGuards[i], "op").s \in GuardOps

\* The node id guard i's variable is bound to.
BoundNode(i) == DictGet(gdEnv, DictGet(gdGuards[i], "var").s)

\* The atomic test of guard i holds: its variable is bound to a node of the
\* graph, and (the node's property at key, None when missing) <op> (the
\* guard's constant) is true in Python.
AtomHolds(i) ==
    /\ ~Unbound(i)
    /\ ~NodeAbsent(i)
    /\ OpEval(DictGetOr(Props(gdGraph, BoundNode(i)), DictGet(gdGuards[i], "key").s, NoneV),
              DictGet(gdGuards[i], "op").s, DictGet(gdGuards[i], "value"), InitHeap) = "true"

\* The property guard i reads is on the bound node and is truthy.
PropertyTruthy(i) ==
    /\ ~Unbound(i)
    /\ ~NodeAbsent(i)
    /\ DictHas(Props(gdGraph, BoundNode(i)), DictGet(gdGuards[i], "key").s)
    /\ PyTruth(DictGet(Props(gdGraph, BoundNode(i)), DictGet(gdGuards[i], "key").s), InitHeap)

\* C30: a predicate built from no guards passes for every graph and binding;
\* one built from atomic guards passes exactly when every guard's test
\* (bound node's property at key) <op> (constant) holds; and the test of an
\* 'exists' guard holds exactly when the property is there and truthy.
C30_GuardSemantics ==
    gdResult # "none" =>
        /\ gdGuards = <<>> => gdResult = "true"
        /\ (\A i \in 1..Len(gdGuards) : Atomic(i)) =>
              /\ gdResult = "true" <=> \A i \in 1..Len(gdGuards) : AtomHolds(i)
              /\ \A i \in 1..Len(gdGuards) :
                    DictGet(gdGuards[i], "op").s = "exists" => (AtomHolds(i) <=> PropertyTruthy(i))

\* C30 witness: of two different atomic guards the first holds and the
\* second, an 'exists' guard on a property that is there but zero, does not,
\* and the predicate has returned false.
C30_Witness ==
    /\ gdResult = "false"
    /\ Len(gdGuards) = 2
    /\ Atomic(1) /\ Atomic(2)
    /\ AtomHolds(1)
    /\ DictGet(gdGuards[2], "op").s = "exists"
    /\ ~Unbound(2) /\ ~NodeAbsent(2)
    /\ DictHas(Props(gdGraph, BoundNode(2)), "k")
    /\ ~AtomHolds(2)

(***************************************************************************)
(* compiler.match_var_bindings and rule_handlers_std._match_vars.  An env  *)
(* is a dict from variable name to node id; a vars_spec entry is the props *)
(* dict of a PatternVar node.                                              *)
(***************************************************************************)
DictValues(d) == {d[i].v : i \in 1..Len(d)}

\* Mutant of Reused: a node already bound is offered again.
ReusedNever(env, nid) == FALSE

\* nid in env.values()
Reused(env, nid) == nid \in DictValues(env)

\* The inner loop: env extended by vname -> nid for each candidate not yet used.
ExtendEnv(env, vname, cands) ==
    LET free == SelectSeq(cands, LAMBDA nid : ~Reused(env, nid))
    IN  [i \in 1..Len(free) |-> DictSet(env, vname, free[i])]

\* The loop over envs, for one variable.
RECURSIVE ExtendAll(_, _, _)
ExtendAll(envs, vname, cands) ==
    IF envs = <<>> THEN <<>>
    ELSE ExtendEnv(Head(envs), vname, cands) \o ExtendAll(Tail(envs), vname, cands)

\* not vname or not vtype
VarSpecFalsy(vs) ==
    \/ ~PyTruth(DictGetOr(vs, "var", NoneV), <<>>)
    \/ ~PyTruth(DictGetOr(vs, "type", NoneV), <<>>)

\* The first loop of match_var_bindings returns [] early.
NoPools(g, varsSpec) ==
    \E i \in 1..Len(varsSpec) :
        \/ VarSpecFalsy(varsSpec[i])
        \/ Find(g, DictGet(varsSpec[i], "type").s) = <<>>

\* The cartesian product over the pools, envs being the product so far.
RECURSIVE ProductFrom(_, _, _)
ProductFrom(g, varsSpec, envs) ==
    IF varsSpec = <<>> THEN envs
    ELSE ProductFrom(g, Tail(varsSpec),
             ExtendAll(envs, DictGet(Head(varsSpec), "var").s,
                       Find(g, DictGet(Head(varsSpec), "type").s)))

MatchVarBindings(g, varsSpec) ==
    IF NoPools(g, varsSpec) THEN <<>> ELSE ProductFrom(g, varsSpec, <<<<>>>>)

\* _match_vars: the loop from entry varsSpec[1] on, envs being the list so far.
RECURSIVE MatchVarsFrom(_, _, _)
MatchVarsFrom(g, varsSpec, envs) ==
    IF varsSpec = <<>> THEN envs
    ELSE LET vs == Head(varsSpec)
             cands == IF VarSpecFalsy(vs) THEN <<>> ELSE Find(g, DictGet(vs, "type").s)
             newEnvs == IF cands = <<>> THEN <<>>
                        ELSE ExtendAll(envs, DictGet(vs, "var").s, cands)
         IN  IF newEnvs = <<>> THEN <<>> ELSE MatchVarsFrom(g, Tail(varsSpec), newEnvs)

MatchVars(g, varsSpec) == MatchVarsFrom(g, varsSpec, <<<<>>>>)

(***************************************************************************)
(* SpecMatch: both matchers are called on a graph and a vars_spec.         *)
(***************************************************************************)
MaxVars == 3

\* Graphs over the ids a, b, c, each absent or of type T or U.
MatchGraphs ==
    {LET ga == IF ty[1] = "" THEN EmptyGraph ELSE AddNode(EmptyGraph, "a", ty[1], <<>>)
         gb == IF ty[2] = "" THEN ga ELSE AddNode(ga, "b", ty[2], <<>>)
     IN  IF ty[3] = "" THEN gb ELSE AddNode(gb, "c", ty[3], <<>>) :
        ty \in [1..3 -> {"", "T", "U"}]}

\* The PatternVar props add_var writes; the last one has an empty name.
VarSpecChoices ==
    {<<[k |-> "var", v |-> StrV(var)], [k |-> "type", v |-> StrV(ty)]>> :
        var \in {"x", "y"}, ty \in {"T", "U"}}
    \cup {<<[k |-> "var", v |-> StrV("")], [k |-> "type", v |-> StrV("T")]>>}

\* A rule's declarations: add_var keeps one PatternVar node per variable name,
\* so two entries of one name carry one type.
VarSpecLists ==
    {vl \in UNION {[1..n -> VarSpecChoices] : n \in 0..MaxVars} :
        \A i, j \in 1..Len(vl) :
            DictGet(vl[i], "var") = DictGet(vl[j], "var") => vl[i] = vl[j]}

MatchInit ==
    /\ mtGraph \in MatchGraphs
    /\ mtVars \in VarSpecLists
    /\ mtEnvs = <<>>
    /\ mtEnvsStd = <<>>
    /\ mtDone = {}
    /\ GraphStart
    /\ GuardIdle
    /\ RulesIdle
    /\ SearchIdle
    /\ CompileIdle
    /\ BuilderIdle

MatchCompilerCall ==
    /\ "compiler" \notin mtDone
    /\ mtEnvs' = MatchVarBindings(mtGraph, mtVars)
    /\ mtDone' = mtDone \cup {"compiler"}
    /\ UNCHANGED <<mtGraph, mtVars, mtEnvsStd, notMatchVars>>

MatchStdCall ==
    /\ "std" \notin mtDone
    /\ mtEnvsStd' = MatchVars(mtGraph, mtVars)
    /\ mtDone' = mtDone \cup {"std"}
    /\ UNCHANGED <<mtGraph, mtVars, mtEnvs, notMatchVars>>

MatchNext ==
    \/ MatchCompilerCall
    \/ MatchStdCall

SpecMatch == MatchInit /\ [][MatchNext]_vars

NodeType(g, nid) == DictGet(g.nodes, nid).type

\* Every binding of envs binds each declared variable to a node of its type,
\* and no node to two variables.
GoodBindings(envs) ==
    \A e \in 1..Len(envs) :
        /\ \A i \in 1..Len(mtVars) :
              /\ DictHas(envs[e], DictGet(mtVars[i], "var").s)
              /\ HasNode(mtGraph, DictGet(envs[e], DictGet(mtVars[i], "var").s))
              /\ NodeType(mtGraph, DictGet(envs[e], DictGet(mtVars[i], "var").s))
                    = DictGet(mtVars[i], "type").s
        /\ \A p, q \in 1..Len(envs[e]) : envs[e][p].v = envs[e][q].v => p = q

SomeVarWithoutCandidate ==
    \E i \in 1..Len(mtVars) : Find(mtGraph, DictGet(mtVars[i], "type").s) = <<>>

\* C8: each binding returned by match_var_bindings and by _match_vars gives
\* every declared variable a node of its required type and no node to two
\* variables; a variable without candidates leaves no binding at all.
C8_BindingNoReuse ==
    /\ "compiler" \in mtDone =>
          GoodBindings(mtEnvs) /\ (SomeVarWithoutCandidate => mtEnvs = <<>>)
    /\ "std" \in mtDone =>
          GoodBindings(mtEnvsStd) /\ (SomeVarWithoutCandidate => mtEnvsStd = <<>>)

\* C8 witness: two variables of one type over a graph with at least two nodes
\* of that type; both matchers returned the same, non-empty list of bindings.
C8_Witness ==
    /\ mtDone = {"compiler", "std"}
    /\ Len(mtVars) = 2
    /\ DictGet(mtVars[1], "type") = DictGet(mtVars[2], "type")
    /\ DictGet(mtVars[1], "var") # DictGet(mtVars[2], "var")
    /\ Len(Find(mtGraph, DictGet(mtVars[1], "type").s)) >= 2
    /\ Len(mtEnvs) >= 2
    /\ mtEnvsStd = mtEnvs

(***************************************************************************)
(* rules_pgr_base.py: the rule graph.  Node ids are Python strings; the    *)
(* ids of Guard nodes are formatted from the rule id and the guard's var,  *)
(* key and op.                                                             *)
(***************************************************************************)
HAS_RULE == "has_rule"

HAS_GUARD == "has_guard"

AddRuleset(g, rid, props) ==
    AddNode(g, rid, "RuleSet", DictUpdate(<<[k |-> "name", v |-> StrV("default")]>>, props))

AddRule(g, ruleId, name, kind) ==
    AddEdge(AddNode(g, ruleId, "Rule",
                <<[k |-> "name", v |-> StrV(name)], [k |-> "kind", v |-> StrV(kind)]>>),
            "ruleset", HAS_RULE, ruleId)

\* f"{rule_id}.guard.{var}.{key}.{op}"
GuardId(ruleId, var, key, op) == ruleId \o ".guard." \o var \o "." \o key \o "." \o op

AddGuard(g, ruleId, var, key, op, value) ==
    AddEdge(AddNode(g, GuardId(ruleId, var, key, op), "Guard",
                GuardProps(StrV(var), key, op, value)),
            ruleId, HAS_GUARD, GuardId(ruleId, var, key, op))

\* The props of the targets of the rule's has_guard edges, in edge order.
GetGuards(g, ruleId) ==
    LET es == SelectSeq(g.edges, LAMBDA e : e[1] = ruleId /\ e[2] = HAS_GUARD)
    IN  [i \in 1..Len(es) |-> Props(g, es[i][3])]

\* The id of the first Rule node carrying the name, or None.
FindRuleIdByName(g, name) ==
    LET hits == SelectSeq(g.nodes, LAMBDA e :
                    /\ e.v.type = "Rule"
                    /\ PyEq(DictGetOr(e.v.props, "name", NoneV), StrV(name), <<>>))
    IN  IF hits = <<>> THEN NoneV ELSE StrV(hits[1].k)

\* gp.get("var")==var and gp.get("key")==key and gp.get("op")==op
GuardPropsMatch(gp, var, key, op) ==
    /\ PyEq(DictGetOr(gp, "var", NoneV), StrV(var), <<>>)
    /\ PyEq(DictGetOr(gp, "key", NoneV), StrV(key), <<>>)
    /\ PyEq(DictGetOr(gp, "op", NoneV), StrV(op), <<>>)

\* Mutant of UpsertThresholdGuard: the update of a guard unlinks it from its
\* rule.
UpsertUnlinking(g, ruleName, var, key, op, value) ==
    LET rid == FindRuleIdByName(g, ruleName)
        stops == {i \in 1..Len(g.edges) :
                    /\ g.edges[i][1] = rid.s
                    /\ g.edges[i][2] = HAS_GUARD
                    /\ \/ ~HasNode(g, g.edges[i][3])
                       \/ GuardPropsMatch(Props(g, g.edges[i][3]), var, key, op)}
        first == CHOOSE i \in stops : \A j \in stops : i <= j
    IN  IF ~PyTruth(rid, <<>>) THEN [ret |-> "false", g |-> g]
        ELSE IF stops = {}
        THEN [ret |-> "true", g |-> AddGuard(g, rid.s, var, key, op, value)]
        ELSE IF ~HasNode(g, g.edges[first][3]) THEN [ret |-> "raise", g |-> g]
        ELSE [ret |-> "true",
              g |-> [SetProps(g, g.edges[first][3], <<[k |-> "value", v |-> value]>>)
                        EXCEPT !.edges = SubSeq(@, 1, first - 1) \o SubSeq(@, first + 1, Len(@))]]

\* Stand-in for UpsertThresholdGuard: without a rule of the name the guard is
\* added all the same, under the id "None".
UpsertOnMissing(g, ruleName, var, key, op, value) ==
    LET rid == IF PyTruth(FindRuleIdByName(g, ruleName), <<>>)
               THEN FindRuleIdByName(g, ruleName) ELSE StrV("None")
        stops == {i \in 1..Len(g.edges) :
                    /\ g.edges[i][1] = rid.s
                    /\ g.edges[i][2] = HAS_GUARD
                    /\ \/ ~HasNode(g, g.edges[i][3])
                       \/ GuardPropsMatch(Props(g, g.edges[i][3]), var, key, op)}
        first == CHOOSE i \in stops : \A j \in stops : i <= j
    IN  IF stops = {}
        THEN [ret |-> "true", g |-> AddGuard(g, rid.s, var, key, op, value)]
        ELSE IF ~HasNode(g, g.edges[first][3]) THEN [ret |-> "raise", g |-> g]
        ELSE [ret |-> "true",
              g |-> SetProps(g, g.edges[first][3], <<[k |-> "value", v |-> value]>>)]

\* upsert_threshold_guard: ret is what the call returns ("raise": KeyError on
\* an edge whose target is not a node), g the rule graph it leaves.
UpsertThresholdGuard(g, ruleName, var, key, op, value) ==
    LET rid == FindRuleIdByName(g, ruleName)
        stops == {i \in 1..Len(g.edges) :
                    /\ g.edges[i][1] = rid.s
                    /\ g.edges[i][2] = HAS_GUARD
                    /\ \/ ~HasNode(g, g.edges[i][3])
                       \/ GuardPropsMatch(Props(g, g.edges[i][3]), var, key, op)}
        first == CHOOSE i \in stops : \A j \in stops : i <= j
    IN  IF ~PyTruth(rid, <<>>) THEN [ret |-> "false", g |-> g]
        ELSE IF stops = {}
        THEN [ret |-> "true", g |-> AddGuard(g, rid.s, var, key, op, value)]
        ELSE IF ~HasNode(g, g.edges[first][3]) THEN [ret |-> "raise", g |-> g]
        ELSE [ret |-> "true",
              g |-> SetProps(g, g.edges[first][3], <<[k |-> "value", v |-> value]>>)]

(***************************************************************************)
(* SpecRules: an installer adds rules to a rule set and guards are         *)
(* upserted by rule name.                                                  *)
(***************************************************************************)
MaxRuleCalls == 3

RuleIds == {"", "r", "q"}

RuleNames == {"n", "m"}

\* Variable and property names; a name may hold a dot.
GuardVarNames == {"a", "a.b"}

GuardKeyNames == {"c", "b.c"}

ThresholdValues == {IntV(1), IntV(2)}

RulesInit ==
    /\ rg = AddRuleset(EmptyGraph, "ruleset", <<>>)
    /\ rgPrev = EmptyGraph
    /\ rgCalls = <<>>
    /\ GraphStart
    /\ GuardIdle
    /\ MatchIdle
    /\ SearchIdle
    /\ CompileIdle
    /\ BuilderIdle

RAddRule ==
    \E ruleId \in RuleIds, name \in RuleNames :
        /\ Len(rgCalls) < MaxRuleCalls
        /\ rg' = AddRule(rg, ruleId, name, "IncProp")
        /\ rgPrev' = rg
        /\ rgCalls' = Append(rgCalls, [fn |-> "add_rule", name |-> name, rid |-> StrV(ruleId),
                var |-> "", key |-> "", op |-> "", value |-> NoneV, ret |-> ruleId])
        /\ UNCHANGED notRuleVars

RUpsert ==
    \E name \in RuleNames, var \in GuardVarNames, key \in GuardKeyNames, value \in ThresholdValues :
        /\ Len(rgCalls) < MaxRuleCalls
        /\ rg' = UpsertThresholdGuard(rg, name, var, key, "<", value).g
        /\ rgPrev' = rg
        /\ rgCalls' = Append(rgCalls, [fn |-> "upsert", name |-> name,
                rid |-> FindRuleIdByName(rg, name),
                var |-> var, key |-> key, op |-> "<", value |-> value,
                ret |-> UpsertThresholdGuard(rg, name, var, key, "<", value).ret])
        /\ UNCHANGED notRuleVars

RulesNext ==
    \/ RAddRule
    \/ RUpsert

SpecRules == RulesInit /\ [][RulesNext]_vars

\* The Guard nodes holding the triple that a has_guard edge links to the rule.
GuardNodesOf(rid, var, key, op) ==
    {rg.edges[i][3] : i \in {j \in 1..Len(rg.edges) :
        /\ rg.edges[j][1] = rid
        /\ rg.edges[j][2] = HAS_GUARD
        /\ HasNode(rg, rg.edges[j][3])
        /\ NodeType(rg, rg.edges[j][3]) = "Guard"
        /\ GuardPropsMatch(Props(rg, rg.edges[j][3]), var, key, op)}}

\* The upserts that found their rule.
Upserted == {c \in 1..Len(rgCalls) : rgCalls[c].fn = "upsert" /\ rgCalls[c].ret = "true"}

SameGuard(c, d) ==
    /\ rgCalls[c].rid = rgCalls[d].rid
    /\ rgCalls[c].var = rgCalls[d].var
    /\ rgCalls[c].key = rgCalls[d].key
    /\ rgCalls[c].op = rgCalls[d].op

\* C9 (as claimed): after any sequence of upserts on existing rules, each
\* upserted (var, key, op) of a rule has exactly one Guard node, exactly one
\* has_guard edge from the rule points at it, and its value is the one most
\* recently upserted for that triple.
C9_UpsertIdempotent ==
    \A c \in Upserted :
        LET call == rgCalls[c]
            nodes == GuardNodesOf(call.rid.s, call.var, call.key, call.op)
            latest == CHOOSE d \in Upserted :
                         SameGuard(c, d) /\ \A e \in Upserted : SameGuard(c, e) => e <= d
        IN  /\ Cardinality(nodes) = 1
            /\ \A n \in nodes :
                  /\ Cardinality({i \in 1..Len(rg.edges) :
                         rg.edges[i] = <<call.rid.s, HAS_GUARD, n>>}) = 1
                  /\ DictGet(Props(rg, n), "value") = rgCalls[latest].value

\* Some Rule node of g carries the name.
RuleNamed(g, name) ==
    \E i \in 1..Len(g.nodes) :
        /\ g.nodes[i].v.type = "Rule"
        /\ DictGetOr(g.nodes[i].v.props, "name", NoneV) = StrV(name)

\* C10 (as claimed): an upsert naming a rule that no Rule node carries returns
\* false and leaves the rule graph as it was; an upsert naming a rule that
\* some Rule node carries returns true.
C10_UpsertMissingRule ==
    (rgCalls # <<>> /\ rgCalls[Len(rgCalls)].fn = "upsert") =>
        LET call == rgCalls[Len(rgCalls)]
        IN  IF RuleNamed(rgPrev, call.name)
            THEN call.ret = "true"
            ELSE call.ret = "false" /\ rg = rgPrev

(***************************************************************************)
(* rule_handlers_std.SetProp_handler: the RuleFn it returns.  A RuleResult *)
(* is [new_graph, desc].                                                   *)
(***************************************************************************)
Digits == <<"0", "1", "2", "3", "4", "5", "6", "7", "8", "9">>

\* str(n) of an int n
RECURSIVE IntStr(_)
IntStr(n) ==
    IF n < 0 THEN "-" \o IntStr(-n)
    ELSE IF n < 10 THEN Digits[n + 1]
    ELSE IntStr(n \div 10) \o Digits[(n % 10) + 1]

\* A value as an f-string field formats it (ints, strs and None).
\* repr of a float of h hundredths: the shortest decimal, "0.9", "1.0", "0.35".
FloatStr(h) ==
    IF h < 0 THEN "-" \o IntStr((-h) \div 100) \o "." \o
                  (IF (-h) % 10 = 0 THEN Digits[(((-h) % 100) \div 10) + 1]
                   ELSE Digits[(((-h) % 100) \div 10) + 1] \o Digits[((-h) % 10) + 1])
    ELSE IntStr(h \div 100) \o "." \o
         (IF h % 10 = 0 THEN Digits[((h % 100) \div 10) + 1]
          ELSE Digits[((h % 100) \div 10) + 1] \o Digits[(h % 10) + 1])

\* f"{x:.3f}" of a float of h >= 0 hundredths.
Fixed3(h) ==
    IntStr(h \div 100) \o "." \o Digits[((h % 100) \div 10) + 1] \o Digits[(h % 10) + 1] \o "0"

PyStr(v) ==
    CASE v.t = "int" -> IntStr(v.n)
      [] v.t = "float" -> FloatStr(v.n)
      [] v.t = "str" -> v.s
      [] OTHER -> "None"

SetPropFn(rule, g, hp) ==
    LET envs == MatchVars(g, rule.varsSpec)
        fires(env) ==
            /\ DictHas(env, rule.var)
            /\ DictGet(env, rule.var) # ""
            /\ GuardPred(rule.guards, g, env, hp) = "true"
        hits == SelectSeq(envs, fires)
    IN  [i \in 1..Len(hits) |->
            LET x == DictGet(hits[i], rule.var)
            IN  [new_graph |-> SetProps(Clone(g), x, <<[k |-> rule.key, v |-> rule.value]>>),
                 desc |-> "SetProp(" \o x \o "," \o rule.key \o "=" \o PyStr(rule.value)
                            \o ",prev=" \o PyStr(DictGetOr(Props(g, x), rule.key, NoneV)) \o ")"]]

\* r(g) for a compiled rule r.
ApplyRule(rule, g, hp) == SetPropFn(rule, g, hp)

(***************************************************************************)
(* search.py.  Costs and scores are in hundredths.  The random generator   *)
(* is a deterministic state machine: random.seed sets its state, each      *)
(* random.random() returns a value read off the state (0.0 or 0.5) and     *)
(* steps it.                                                               *)
(***************************************************************************)
NoveltyBonus == 30

RandomPerturb == 2

RngModulus == 8

SeedRng(seed) == seed % RngModulus

\* Mutant of Reseed: the generator is left as the caller found it.
NoReseed(rng, seed) == rng

\* if cfg.seed is not None: random.seed(cfg.seed)
Reseed(rng, seed) == IF seed.t = "none" THEN rng ELSE SeedRng(seed.n)

StepRng(st) == (5 * st + 3) % RngModulus

\* Twice the value random.random() returns in state st.
DrawRng(st) == (st \div 2) % 2

\* default_signature_fn
SignatureFn(g) == Signature(g, InitHeap)

\* default_scorer
Scorer(m) == m.cost

\* default_stop_pred
StopPred(m) == m.feasible

\* evaluator.evaluate(g, params) of a pure evaluator that reads property k of
\* node a: ev.cost and ev.feasible tabulate it.
Evaluate(ev, g) ==
    LET k == DictGet(Props(g, "a"), "k").n
    IN  [cost |-> ev.cost[k], feasible |-> k \in ev.feasible, extras |-> <<>>]

\* score_tuple, random.random() being drawn in generator state rng.
ScoreTuple(g, m, desc, seen, rng) ==
    LET sig == SignatureFn(g)
        novelty == NoveltyBonus * (IF sig \in seen THEN 0 ELSE 1)
    IN  [score |-> Scorer(m) - novelty + (RandomPerturb * DrawRng(rng)) \div 2,
         g |-> g, m |-> m, desc |-> desc, sig |-> sig]

RECURSIVE Flatten(_)
Flatten(ss) == IF ss = <<>> THEN <<>> ELSE Head(ss) \o Flatten(Tail(ss))

\* Mutant of RuleResults: a result is made up where no rule gave one.
RuleResultsOrEcho(beam, rules) ==
    IF \A b \in 1..Len(beam) : \A r \in 1..Len(rules) :
           ApplyRule(rules[r], beam[b].g, InitHeap) = <<>>
    THEN <<[new_graph |-> Clone(beam[1].g), desc |-> "echo"]>>
    ELSE Flatten([b \in 1..Len(beam) |->
             Flatten([r \in 1..Len(rules) |-> ApplyRule(rules[r], beam[b].g, InitHeap)])])

\* The RuleResults of one iteration, in the order the loops over beam, rules
\* and results meet them.
RuleResults(beam, rules) ==
    Flatten([b \in 1..Len(beam) |->
        Flatten([r \in 1..Len(rules) |-> ApplyRule(rules[r], beam[b].g, InitHeap)])])

\* memo[sig] = m
MemoSet(memo, sig, m) ==
    [s \in DOMAIN memo \cup {sig} |-> IF s = sig THEN m ELSE memo[s]]

\* The body of the innermost loop, run over the results; acc carries memo, the
\* evaluate() calls made, candidates and the generator state.
RECURSIVE EvalCandidates(_, _, _, _)
EvalCandidates(results, acc, ev, seen) ==
    IF results = <<>> THEN acc
    ELSE LET rr == Head(results)
             sig == SignatureFn(rr.new_graph)
             hit == sig \in DOMAIN acc.memo
             m == IF hit THEN acc.memo[sig] ELSE Evaluate(ev, rr.new_graph)
         IN  EvalCandidates(Tail(results),
                 [memo |-> IF hit THEN acc.memo ELSE MemoSet(acc.memo, sig, m),
                  evals |-> IF hit THEN acc.evals ELSE Append(acc.evals, sig),
                  cands |-> Append(acc.cands, ScoreTuple(rr.new_graph, m, rr.desc, seen, acc.rng)),
                  rng |-> StepRng(acc.rng)],
                 ev, seen)

\* Mutant of SortCandidates: the candidates stay in generation order.
Unsorted(cands) == cands

\* candidates.sort(key=lambda t: t[0])
SortCandidates(cands) == Sorted(cands, [i \in 1..Len(cands) |-> cands[i].score])

\* The dedupe loop over the sorted candidates.
RECURSIVE DedupeTake(_, _, _, _)
DedupeTake(cands, width, nextBeam, sigsNext) ==
    IF cands = <<>> THEN nextBeam
    ELSE IF Head(cands).sig \in sigsNext
    THEN DedupeTake(Tail(cands), width, nextBeam, sigsNext)
    ELSE IF Len(nextBeam) + 1 >= width THEN Append(nextBeam, Head(cands))
    ELSE DedupeTake(Tail(cands), width, Append(nextBeam, Head(cands)),
                    sigsNext \cup {Head(cands).sig})

NextBeam(cands, cfg) ==
    IF cfg.dedupe_beam
    THEN DedupeTake(SortCandidates(cands), cfg.beam_width, <<>>, {})
    ELSE SubSeq(SortCandidates(cands), 1,
                IF cfg.beam_width < Len(cands) THEN cfg.beam_width ELSE Len(cands))

\* Mutant of Improves: a tie replaces the best.
ImprovesOrTies(b0, best) == b0.m.cost <= best.m.cost

\* Stand-in for Improves: the scores, not the costs, are compared.
ImprovesByScore(b0, best) == b0.score < best.score

\* b0[2].cost < best[2].cost
Improves(b0, best) == b0.m.cost < best.m.cost

\* Mutant of AfterIteration: the stop predicate is not consulted.
AfterIterationOn(best) == "loop"

\* if stop_pred(best[2]): break
AfterIteration(best) == IF StopPred(best.m) THEN "done" ELSE "loop"

\* Mutant of ProvLog: the last step is overwritten.
ProvLogOverwrite(steps, desc, m) ==
    IF steps = <<>> THEN <<[rule |-> desc, metrics |-> m]>>
    ELSE [steps EXCEPT ![Len(steps)] = [rule |-> desc, metrics |-> m]]

\* Provenance.log
ProvLog(steps, desc, m) ==
    Append(steps, [rule |-> desc,
                   metrics |-> [cost |-> m.cost, feasible |-> m.feasible,
                                extras |-> DictUpdate(<<>>, m.extras)]])

(***************************************************************************)
(* SpecSearch: one call of search() on a one-node artifact, with rules     *)
(* compiled by SetProp_handler.                                            *)
(***************************************************************************)
MaxIters == 2

MaxBeam == 2

MaxRules == 2

PropValues == {0, 1, 2}

CostChoices == {10, 11, 50}

Seeds == {0, 5}

Initial == AddNode(EmptyGraph, "a", "T", <<[k |-> "k", v |-> IntV(0)]>>)

\* Rules "set k of a T node to v": unguarded to 0, guarded by k < v otherwise.
SetPropRule(v, guards) ==
    [kind |-> "SetProp", var |-> "x", key |-> "k", value |-> IntV(v),
     varsSpec |-> <<<<[k |-> "var", v |-> StrV("x")], [k |-> "type", v |-> StrV("T")]>>>>,
     guards |-> guards]

RuleChoices ==
    {SetPropRule(0, <<>>)}
    \cup {SetPropRule(v, <<GuardProps(StrV("x"), "k", "<", IntV(v))>>) : v \in PropValues \ {0}}
    \cup {SetPropRule(1, <<GuardProps(StrV("x"), "k", ">", IntV(0))>>)}

\* The rule lists: each rule compiled from a rule node of its own.
RuleLists ==
    {rs \in UNION {[1..n -> RuleChoices] : n \in 0..MaxRules} :
        \A i, j \in 1..Len(rs) : rs[i] = rs[j] => i = j}

Evaluators ==
    {[cost |-> c, feasible |-> f] : c \in [PropValues -> CostChoices], f \in {{}, {0}, {2}}}

Configs ==
    {[iters |-> i, beam_width |-> w, dedupe_beam |-> d, seed |-> IntV(s)] :
        i \in 0..MaxIters, w \in 1..MaxBeam, d \in BOOLEAN, s \in Seeds}

SearchInit ==
    /\ sArgs \in {[initial |-> Initial, rules |-> rs, evaluator |-> ev, cfg |-> cfg] :
                    rs \in RuleLists, ev \in Evaluators, cfg \in Configs}
    /\ sPc = "start"
    /\ sIter = 0
    /\ sRng = 0
    /\ sBeam = <<>>
    /\ sBest = <<>>
    /\ sSeen = {}
    /\ sMemo = <<>>
    /\ sCands = <<>>
    /\ sProv = <<>>
    /\ sEvals = <<>>
    /\ sSelected = {}
    /\ sApplied = 0
    /\ sOccurred = {}
    /\ sCall = 1
    /\ sFirst = <<>>
    /\ GraphStart
    /\ GuardIdle
    /\ MatchIdle
    /\ RulesIdle
    /\ CompileIdle
    /\ BuilderIdle

\* Lines 100-116: seed the generator, evaluate and score the seed.
SSeed ==
    /\ sPc = "start"
    /\ sBest' = ScoreTuple(sArgs.initial, Evaluate(sArgs.evaluator, sArgs.initial), "init", {},
                           Reseed(sRng, sArgs.cfg.seed))
    /\ sBeam' = <<sBest'>>
    /\ sProv' = ProvLog(<<>>, "init", sBest'.m)
    /\ sEvals' = <<sBest'.sig>>
    /\ sOccurred' = {sBest'.sig}
    /\ sRng' = StepRng(Reseed(sRng, sArgs.cfg.seed))
    /\ sPc' = "loop"
    /\ UNCHANGED <<sArgs, sIter, sSeen, sMemo, sCands, sSelected, sApplied, sCall, sFirst,
                   notSearchVars>>

\* Lines 119-135: one pass of the loops over beam, rules and results.
SExpand ==
    /\ sPc = "loop"
    /\ sIter < sArgs.cfg.iters
    /\ \E acc \in {EvalCandidates(RuleResults(sBeam, sArgs.rules),
                       [memo |-> sMemo, evals |-> sEvals, cands |-> <<>>, rng |-> sRng],
                       sArgs.evaluator, sSeen)} :
           /\ sMemo' = acc.memo
           /\ sEvals' = acc.evals
           /\ sCands' = acc.cands
           /\ sRng' = acc.rng
    /\ sOccurred' = sOccurred \cup {sCands'[i].sig : i \in 1..Len(sCands')}
    /\ sPc' = IF sCands' = <<>> THEN "done" ELSE "select"
    /\ sApplied' = sApplied + Len(sBeam) * Len(sArgs.rules)
    /\ sIter' = sIter + 1
    /\ UNCHANGED <<sArgs, sBeam, sBest, sSeen, sProv, sSelected, sCall, sFirst, notSearchVars>>

\* Lines 137-165: rank, select the next beam, update best, log, test the stop.
SSelect ==
    /\ sPc = "select"
    /\ sCands' = SortCandidates(sCands)
    /\ sBeam' = NextBeam(sCands, sArgs.cfg)
    /\ sSeen' = sSeen \cup {sBeam'[i].sig : i \in 1..Len(sBeam')}
    /\ sBest' = IF Improves(sBeam'[1], sBest) THEN sBeam'[1] ELSE sBest
    /\ sProv' = ProvLog(sProv, sBeam'[1].desc, sBeam'[1].m)
    /\ sSelected' = sSelected \cup {sBeam'[i] : i \in 1..Len(sBeam')}
    /\ sPc' = AfterIteration(sBest')
    /\ UNCHANGED <<sArgs, sIter, sRng, sMemo, sEvals, sApplied, sOccurred, sCall, sFirst,
                   notSearchVars>>

\* Line 119: the iteration budget is used up.
SExhaust ==
    /\ sPc = "loop"
    /\ sIter = sArgs.cfg.iters
    /\ sPc' = "done"
    /\ UNCHANGED <<sArgs, sIter, sRng, sBeam, sBest, sSeen, sMemo, sCands, sProv, sEvals,
                   sSelected, sApplied, sOccurred, sCall, sFirst, notSearchVars>>

SearchNext ==
    \/ SSeed
    \/ SExpand
    \/ SSelect
    \/ SExhaust

SpecSearch == SearchInit /\ [][SearchNext]_vars

\* C1 (as claimed): no signature is handed to evaluate() twice in one call,
\* the evaluation of the seed included.
C1_EvaluateOncePerSignature ==
    \A i, j \in 1..Len(sEvals) : sEvals[i] = sEvals[j] => i = j

\* C2: once seeded, the cost of the tracked best never goes up, and the best
\* changes only to a tuple of strictly lower cost.
C2_BestMonotone ==
    [][sPc # "start" =>
          /\ sBest'.m.cost <= sBest.m.cost
          /\ (sBest' # sBest => sBest'.m.cost < sBest.m.cost)]_vars

\* C2 witness: the best was replaced in an earlier iteration, and the head of
\* the current beam ties with it on cost without having replaced it.
C2_Witness ==
    /\ sPc \in {"loop", "done"}
    /\ sIter >= 2
    /\ sBest.desc # "init"
    /\ sBeam[1] # sBest
    /\ sBeam[1].m.cost = sBest.m.cost

\* C3 (as claimed): at return, the cost returned is at most the cost of the
\* seed and of every candidate that was selected into a beam.
C3_ReturnsLowestSelected ==
    sPc = "done" =>
        /\ sBest.m.cost <= sProv[1].metrics.cost
        /\ \A c \in sSelected : sBest.m.cost <= c.m.cost

\* The least cost among the steps of a provenance, and the first step that
\* has it.
MinCost(steps) ==
    CHOOSE c \in {steps[i].metrics.cost : i \in 1..Len(steps)} :
        \A j \in 1..Len(steps) : c <= steps[j].metrics.cost

Earliest(steps) ==
    CHOOSE i \in 1..Len(steps) :
        /\ steps[i].metrics.cost = MinCost(steps)
        /\ \A j \in 1..(i - 1) : steps[j].metrics.cost > MinCost(steps)

\* C38: at return the Metrics are those of the first provenance step of
\* least cost; the returned graph is the seed when that is the first step,
\* and throughout the call the tracked best is the head of the beam logged
\* by that step: a step that logs a new least cost makes its head the best,
\* any other step leaves the best as it was.
C38_ReturnsProvenanceMinimum ==
    /\ [](sPc = "done" =>
              /\ sBest.m.cost = MinCost(sProv)
              /\ sBest.desc = sProv[Earliest(sProv)].rule
              /\ sBest.m.feasible = sProv[Earliest(sProv)].metrics.feasible
              /\ Earliest(sProv) = 1 => sBest.g = sArgs.initial)
    /\ [][sProv' # sProv =>
              /\ sProv'[Len(sProv')].rule = sBeam'[1].desc
              /\ Earliest(sProv') = Len(sProv') => sBest' = sBeam'[1]
              /\ Earliest(sProv') # Len(sProv') => sBest' = sBest]_vars

\* C38 witness: the call returned the head of the first iteration, whose
\* cost is below the seed's and is met again by the head of the second.
C38_Witness ==
    /\ sPc = "done"
    /\ Len(sProv) = 3
    /\ Earliest(sProv) = 2
    /\ sProv[3].metrics.cost = MinCost(sProv)
    /\ sBest.desc = sProv[2].rule
    /\ sBest.g # sArgs.initial

\* search() runs its steps in sequence, so a step that stays possible is
\* taken: weak fairness of SearchNext.  A step is possible exactly while the
\* call has not returned (the guards of the four actions cover every sPc
\* other than "done" as long as sIter <= cfg.iters), which is how the
\* enabling condition is written here.
SearchFairness == <>[](sPc # "done") => []<><<SearchNext>>_vars

SpecSearchFair == SearchInit /\ [][SearchNext]_vars /\ SearchFairness

\* C15: search() returns; it enters at most cfg.iters iterations; the
\* iteration after which the best satisfies the stop predicate is the last,
\* and so is the first iteration without candidates; the provenance has at
\* most cfg.iters + 1 steps.
C15_Terminates ==
    /\ <>(sPc = "done")
    /\ [](sIter <= sArgs.cfg.iters /\ Len(sProv) <= sArgs.cfg.iters + 1)
    /\ [][/\ (sPc = "select" /\ StopPred(sBest'.m) => sPc' = "done")
          /\ (sPc = "loop" /\ sIter' = sIter + 1 /\ sCands' = <<>> => sPc' = "done")
          /\ (sPc = "done" => sPc' = "done")]_vars

\* C15 witness: a call that used up its budget of two iterations or more and
\* logged a step in each.
C15_Witness ==
    /\ sPc = "done"
    /\ sArgs.cfg.iters >= 2
    /\ sIter = sArgs.cfg.iters
    /\ Len(sProv) = sArgs.cfg.iters + 1
    /\ ~StopPred(sBest.m)

\* C16 (as claimed): from the moment the best, the seed included, satisfies
\* the stop predicate, no rewrite function is called and evaluate() is not
\* called.
C16_EarlyStop ==
    [][(sPc \in {"loop", "select", "done"} /\ StopPred(sBest.m)) =>
          (sApplied' = sApplied /\ sEvals' = sEvals)]_vars

\* Whether the score of tuple c holds the novelty bonus: the jitter is below
\* the bonus, so the score is below scorer(m) exactly when it does.
GotBonus(c) == c.score < Scorer(c.m)

\* C17 (as claimed): a candidate is scored with the novelty bonus exactly when
\* its signature is neither the seed's nor that of a candidate generated in
\* an earlier iteration.
C17_NoveltyBonus ==
    [][sPc = "loop" /\ sPc' = "select" =>
          \A i \in 1..Len(sCands') :
              GotBonus(sCands'[i]) <=> sCands'[i].sig \notin sOccurred]_vars

\* Number of positions of sequence s that hold x.
Count(s, x) == Cardinality({i \in 1..Len(s) : s[i] = x})

\* C18: after an iteration with candidates the beam is non-empty, no longer
\* than beam_width and in ascending score order; it holds the lowest-scoring
\* candidates (each as often as it was generated, at most) and as many as the
\* width allows; with dedupe_beam its signatures are distinct and each member
\* scores lowest among the candidates of its signature.
C18_BeamSelection ==
    (sPc \in {"loop", "done"} /\ sCands # <<>>) =>
        LET w == sArgs.cfg.beam_width
            d == sArgs.cfg.dedupe_beam
            n == Len(sBeam)
            avail == IF d THEN Cardinality({sCands[j].sig : j \in 1..Len(sCands)})
                     ELSE Len(sCands)
        IN  /\ n >= 1
            /\ n <= w
            /\ n = IF w < avail THEN w ELSE avail
            /\ \A i, j \in 1..n : i < j => sBeam[i].score <= sBeam[j].score
            /\ \A i \in 1..n : /\ Count(sCands, sBeam[i]) >= 1
                               /\ Count(sBeam, sBeam[i]) <= Count(sCands, sBeam[i])
            /\ \A j \in 1..Len(sCands) :
                   sCands[j].score < sBeam[n].score =>
                       IF d THEN \E i \in 1..n : sBeam[i].sig = sCands[j].sig
                       ELSE Count(sBeam, sCands[j]) = Count(sCands, sCands[j])
            /\ d => /\ \A i, j \in 1..n : sBeam[i].sig = sBeam[j].sig => i = j
                    /\ \A i \in 1..n : \A j \in 1..Len(sCands) :
                           sCands[j].sig = sBeam[i].sig => sBeam[i].score <= sCands[j].score

\* C18 witness: with dedupe_beam, an iteration whose candidates held one
\* signature twice with different scores, and a beam filled to its width of 2.
C18_Witness ==
    /\ sPc \in {"loop", "done"}
    /\ sArgs.cfg.dedupe_beam
    /\ sArgs.cfg.beam_width = 2
    /\ Len(sBeam) = 2
    /\ Len(sCands) >= 3
    /\ \E i, j \in 1..Len(sCands) :
           sCands[i].sig = sCands[j].sig /\ sCands[i].score # sCands[j].score

\* Whether provenance step st holds description desc and the Metrics m.
StepOf(st, desc, m) ==
    /\ st.rule = desc
    /\ st.metrics.cost = m.cost
    /\ st.metrics.feasible = m.feasible
    /\ st.metrics.extras = m.extras

\* C19: the provenance starts as the single step "init" with the Metrics of
\* the seed; the selection of an iteration appends one step, the description
\* and Metrics of the head of the new beam, which scores lowest in it; no
\* other step of the call touches the log, and the steps logged stay as
\* they are.
C19_ProvenanceAppendOnly ==
    [][/\ (sPc = "start" =>
              /\ Len(sProv') = 1
              /\ StepOf(sProv'[1], "init", Evaluate(sArgs.evaluator, sArgs.initial)))
       /\ (sPc = "select" =>
              /\ Len(sProv') = Len(sProv) + 1
              /\ SubSeq(sProv', 1, Len(sProv)) = sProv
              /\ StepOf(sProv'[Len(sProv')], sBeam'[1].desc, sBeam'[1].m)
              /\ \A i \in 1..Len(sBeam') : sBeam'[1].score <= sBeam'[i].score)
       /\ (sPc \in {"loop", "done"} => sProv' = sProv)]_vars

\* C19 witness: a returned call whose first iteration logged the head of its
\* beam and whose second iteration, one without candidates, logged nothing.
C19_Witness ==
    /\ sPc = "done"
    /\ sIter = 2
    /\ sCands = <<>>
    /\ Len(sProv) = 2
    /\ sProv[1].rule = "init"
    /\ StepOf(sProv[2], sBeam[1].desc, sBeam[1].m)

\* Whether no rewrite function of the call returns a result on the seed.
NoRuleFiresOnSeed ==
    \A r \in 1..Len(sArgs.rules) : ApplyRule(sArgs.rules[r], sArgs.initial, InitHeap) = <<>>

\* C21: when no rule gives a candidate on the seed (an empty rule list
\* included) and an iteration is run, search() returns the seed graph, the
\* seed's Metrics and the single provenance step "init", evaluate() having
\* been called once.
C21_FixedPointReturnsSeed ==
    (sPc = "done" /\ sArgs.cfg.iters >= 1 /\ NoRuleFiresOnSeed) =>
        /\ sIter = 1
        /\ sBest.g = sArgs.initial
        /\ sBest.m = Evaluate(sArgs.evaluator, sArgs.initial)
        /\ Len(sProv) = 1
        /\ StepOf(sProv[1], "init", sBest.m)
        /\ Len(sEvals) = 1

\* C21 witness: a call with a rule whose guard fails on the seed has returned
\* after its first iteration.
C21_Witness ==
    /\ sPc = "done"
    /\ sArgs.cfg.iters >= 1
    /\ sArgs.rules # <<>>
    /\ NoRuleFiresOnSeed
    /\ sCands = <<>>
    /\ sBest.g = sArgs.initial

(***************************************************************************)
(* SpecRepeat: search() called twice with the same arguments.  The random  *)
(* generator is the module-wide one of Python's random: a call finds it in *)
(* the state earlier calls left it in.                                     *)
(***************************************************************************)
RngStates == 0..(RngModulus - 1)

\* Evaluators whose costs lie within the jitter of each other.
RepeatEvaluators ==
    {ev \in Evaluators : ev.feasible = {} /\ \A k \in PropValues : ev.cost[k] \in {10, 11}}

\* cfg.seed is an int or None.
RepeatConfigs ==
    {[iters |-> MaxIters, beam_width |-> w, dedupe_beam |-> d, seed |-> s] :
        w \in 1..MaxBeam, d \in BOOLEAN, s \in {IntV(n) : n \in Seeds} \cup {NoneV}}

\* What search() returns, the graph by its signature.
SearchResult == [sig |-> SignatureFn(sBest.g), metrics |-> sBest.m, steps |-> sProv]

RepeatInit ==
    /\ sArgs \in {[initial |-> Initial, rules |-> rs, evaluator |-> ev, cfg |-> cfg] :
                    rs \in RuleLists, ev \in RepeatEvaluators, cfg \in RepeatConfigs}
    /\ sPc = "start"
    /\ sIter = 0
    /\ sRng \in RngStates
    /\ sBeam = <<>>
    /\ sBest = <<>>
    /\ sSeen = {}
    /\ sMemo = <<>>
    /\ sCands = <<>>
    /\ sProv = <<>>
    /\ sEvals = <<>>
    /\ sSelected = {}
    /\ sApplied = 0
    /\ sOccurred = {}
    /\ sCall = 1
    /\ sFirst = <<>>
    /\ GraphStart
    /\ GuardIdle
    /\ MatchIdle
    /\ RulesIdle
    /\ CompileIdle
    /\ BuilderIdle

\* The first call has returned; other calls of search() may have run since
\* and left the generator in any state; search() is called again with the
\* same arguments and starts from fresh locals (lines 103-105).
SAgain ==
    /\ sPc = "done"
    /\ sCall = 1
    /\ sFirst' = SearchResult
    /\ sCall' = 2
    /\ sRng' \in RngStates
    /\ sPc' = "start"
    /\ sIter' = 0
    /\ sBeam' = <<>>
    /\ sBest' = <<>>
    /\ sSeen' = {}
    /\ sMemo' = <<>>
    /\ sCands' = <<>>
    /\ sProv' = <<>>
    /\ sEvals' = <<>>
    /\ sSelected' = {}
    /\ sApplied' = 0
    /\ sOccurred' = {}
    /\ UNCHANGED <<sArgs, notSearchVars>>

RepeatNext ==
    \/ SSeed
    \/ SExpand
    \/ SSelect
    \/ SExhaust
    \/ SAgain

SpecRepeat == RepeatInit /\ [][RepeatNext]_vars

\* C20: a call with a seed that is not None returns what the earlier call
\* with the same arguments returned (signature of the best graph, Metrics and
\* provenance steps), whatever state the generator was in before either call.
C20_Deterministic ==
    (sCall = 2 /\ sPc = "done" /\ sArgs.cfg.seed.t # "none") => SearchResult = sFirst

\* C20 witness: a repeated seeded call that returned, after two iterations
\* whose candidates included two that differ in score by the jitter alone.
C20_Witness ==
    /\ sCall = 2
    /\ sPc = "done"
    /\ sArgs.cfg.seed.t # "none"
    /\ Len(sProv) = 3
    /\ SearchResult = sFirst
    /\ \E i, j \in 1..Len(sCands) :
           /\ sCands[i].m.cost = sCands[j].m.cost
           /\ GotBonus(sCands[i]) = GotBonus(sCands[j])
           /\ sCands[i].score # sCands[j].score

(***************************************************************************)
(* rules_pgr_base.py: params and pattern variables of a rule; compiler.py: *)
(* compile_rules_from_pgr.  A compiled rewrite function is the record of   *)
(* what its handler closed over: [kind, rid, params, vars, guards].        *)
(***************************************************************************)
HAS_PARAM == "has_param"

HAS_VAR == "has_var"

AddParam(g, ruleId, key, value) ==
    AddEdge(AddNode(g, ruleId \o ".param." \o key, "Param",
                <<[k |-> "key", v |-> StrV(key)], [k |-> "value", v |-> value]>>),
            ruleId, HAS_PARAM, ruleId \o ".param." \o key)

AddVar(g, ruleId, var, vtype) ==
    AddEdge(AddNode(g, ruleId \o ".var." \o var, "PatternVar",
                <<[k |-> "var", v |-> StrV(var)], [k |-> "type", v |-> StrV(vtype)]>>),
            ruleId, HAS_VAR, ruleId \o ".var." \o var)

\* The edges of a rule with one label, in edge order.
RuleEdges(g, ruleId, label) == SelectSeq(g.edges, LAMBDA e : e[1] = ruleId /\ e[2] = label)

\* get_params: out[p["key"]] = p["value"] over the has_param edges.
GetParams(g, ruleId) ==
    LET es == RuleEdges(g, ruleId, HAS_PARAM)
    IN  DictUpdate(<<>>, [i \in 1..Len(es) |->
            [k |-> DictGet(Props(g, es[i][3]), "key").s, v |-> DictGet(Props(g, es[i][3]), "value")]])

GetVars(g, ruleId) ==
    LET es == RuleEdges(g, ruleId, HAS_VAR)
    IN  [i \in 1..Len(es) |-> Props(g, es[i][3])]

\* KeyError in get_params, get_vars or get_guards: an edge to a missing node,
\* or a Param node without key or value.
GetRaises(g, ruleId) ==
    \/ \E i \in 1..Len(g.edges) :
          /\ g.edges[i][1] = ruleId
          /\ g.edges[i][2] \in {HAS_PARAM, HAS_VAR, HAS_GUARD}
          /\ ~HasNode(g, g.edges[i][3])
    \/ \E i \in 1..Len(g.edges) :
          /\ g.edges[i][1] = ruleId
          /\ g.edges[i][2] = HAS_PARAM
          /\ HasNode(g, g.edges[i][3])
          /\ \/ ~DictHas(Props(g, g.edges[i][3]), "key")
             \/ ~DictHas(Props(g, g.edges[i][3]), "value")

\* The keys of REGISTRY_STD.
RegistryStd == {"AddNode", "AddEdge", "SetProp", "IncProp", "DeleteArgMin"}

\* The conversions a handler makes when it is called raise: float(delta),
\* int(min_keep) of a value that is no number, dict(props) of no mapping.
HandlerRaises(kind, params) ==
    CASE kind = "IncProp" -> DictHas(params, "delta") /\ ~IsNum(DictGet(params, "delta"))
      [] kind = "DeleteArgMin" -> DictHas(params, "min_keep") /\ ~IsNum(DictGet(params, "min_keep"))
      [] kind = "AddNode" -> DictHas(params, "props") /\ DictGet(params, "props").t # "ref"
      [] OTHER -> FALSE

\* The loop of compile_rules_from_pgr from node i on, fns being the list so
\* far.  status is "ok", or the exception raised.
RECURSIVE CompileFrom(_, _, _, _)
CompileFrom(g, registry, i, fns) ==
    IF i > Len(g.nodes) THEN [status |-> "ok", fns |-> fns]
    ELSE LET rid == g.nodes[i].k
             kind == DictGetOr(g.nodes[i].v.props, "kind", NoneV)
         IN  IF g.nodes[i].v.type # "Rule" THEN CompileFrom(g, registry, i + 1, fns)
             ELSE IF ~PyTruth(kind, <<>>) THEN CompileFrom(g, registry, i + 1, fns)
             ELSE IF GetRaises(g, rid) THEN [status |-> "KeyError", fns |-> <<>>]
             ELSE IF kind.t # "str" \/ kind.s \notin registry
             THEN [status |-> "ValueError", fns |-> <<>>]
             ELSE IF HandlerRaises(kind.s, GetParams(g, rid))
             THEN [status |-> "TypeError", fns |-> <<>>]
             ELSE CompileFrom(g, registry, i + 1,
                      Append(fns, [kind |-> kind.s, rid |-> rid, params |-> GetParams(g, rid),
                                   vars |-> GetVars(g, rid), guards |-> GetGuards(g, rid)]))

CompileRulesFromPgr(g, registry) == CompileFrom(g, registry, 1, <<>>)

(***************************************************************************)
(* rule_handlers_std.py: the five standard handlers.  Graphs are objects   *)
(* in a store (a sequence, the object id being the index); a rewrite       *)
(* function reads its input object, clones it once per result and writes   *)
(* to the clone.  The plan of a call lists, per result, the writes made to *)
(* the clone and the description.                                          *)
(***************************************************************************)
\* str.lower() on the type names in use.
Lower(s) ==
    CASE s = "Segment" -> "segment"
      [] s = "T" -> "t"
      [] s = "U" -> "u"
      [] OTHER -> s

\* The mapping objects a params value may refer to.
ParamObjects == <<[kind |-> "dict", items |-> <<[k |-> "length", v |-> FloatV(90)]>>]>>

\* repr of a dict of scalars: "{'length': 0.9}".
RECURSIVE DictItemsRepr(_)
DictItemsRepr(d) ==
    IF d = <<>> THEN ""
    ELSE "'" \o Head(d).k \o "': " \o PyStr(Head(d).v)
         \o (IF Len(d) > 1 THEN ", " ELSE "") \o DictItemsRepr(Tail(d))

DictRepr(d) == "{" \o DictItemsRepr(d) \o "}"

\* env.get(name): "" stands for None, both are falsy.
EnvGet(env, name) == IF name.t = "str" /\ DictHas(env, name.s) THEN DictGet(env, name.s) ELSE ""

\* Stand-in for WAddNode: add_node called without the props.
WAddNodeNoProps(nid, ntype, props) ==
    [op |-> "add_node", nid |-> nid, ntype |-> ntype, props |-> <<>>,
     src |-> "", etype |-> "", dst |-> "", key |-> "", value |-> NoneV]

WAddNode(nid, ntype, props) ==
    [op |-> "add_node", nid |-> nid, ntype |-> ntype, props |-> props,
     src |-> "", etype |-> "", dst |-> "", key |-> "", value |-> NoneV]

WAddEdge(src, etype, dst) ==
    [op |-> "add_edge", nid |-> "", ntype |-> "", props |-> <<>>,
     src |-> src, etype |-> etype, dst |-> dst, key |-> "", value |-> NoneV]

WSetProp(nid, key, value) ==
    [op |-> "set_prop", nid |-> nid, ntype |-> "", props |-> <<>>,
     src |-> "", etype |-> "", dst |-> "", key |-> key, value |-> value]

WDelNode(nid) ==
    [op |-> "del_node", nid |-> nid, ntype |-> "", props |-> <<>>,
     src |-> "", etype |-> "", dst |-> "", key |-> "", value |-> NoneV]

\* Stand-in for ApplyWrite: the deletion drops only the edges leaving the
\* node.
ApplyWriteSourceOnly(g, w) ==
    CASE w.op = "add_node" -> AddNode(g, w.nid, w.ntype, w.props)
      [] w.op = "add_edge" -> AddEdge(g, w.src, w.etype, w.dst)
      [] w.op = "set_prop" -> SetProps(g, w.nid, <<[k |-> w.key, v |-> w.value]>>)
      [] w.op = "del_node" ->
            [nodes |-> DictDel(g.nodes, w.nid),
             edges |-> SelectSeq(g.edges, LAMBDA e : e[1] # w.nid)]

\* One write to a graph: add_node, add_edge, nodes[x]["props"][key] = value,
\* or del nodes[nid] with the removal of the edges touching nid.
ApplyWrite(g, w) ==
    CASE w.op = "add_node" -> AddNode(g, w.nid, w.ntype, w.props)
      [] w.op = "add_edge" -> AddEdge(g, w.src, w.etype, w.dst)
      [] w.op = "set_prop" -> SetProps(g, w.nid, <<[k |-> w.key, v |-> w.value]>>)
      [] w.op = "del_node" ->
            [nodes |-> DictDel(g.nodes, w.nid),
             edges |-> SelectSeq(g.edges, LAMBDA e : e[1] # w.nid /\ e[3] # w.nid)]

RECURSIVE ApplyWrites(_, _)
ApplyWrites(g, ws) == IF ws = <<>> THEN g ELSE ApplyWrites(ApplyWrite(g, Head(ws)), Tail(ws))

Planned(items) == [status |-> "ok", items |-> items]

PlanRaises == [status |-> "raise", items |-> <<>>]

\* AddNode_handler.fn
AddNodePlan(fn, g, hp) ==
    LET ntype == DictGetOr(fn.params, "type", NoneV)
        nprops == IF DictHas(fn.params, "props")
                  THEN DictUpdate(<<>>, ParamObjects[DictGet(fn.params, "props").n].items)
                  ELSE <<>>
        parent == DictGetOr(fn.params, "parent", NoneV)
        etype == DictGetOr(fn.params, "edge_type", StrV("has"))
        nid == Lower(ntype.s) \o IntStr(Len(Find(g, ntype.s)) + 1)
    IN  IF ~PyTruth(ntype, hp) THEN Planned(<<>>)
        ELSE IF GuardPred(fn.guards, g, <<>>, hp) # "true" THEN Planned(<<>>)
        ELSE Planned(<<[writes |-> <<WAddNode(nid, ntype.s, nprops)>>
                                   \o (IF PyTruth(parent, hp)
                                       THEN <<WAddEdge(parent.s, etype.s, nid)>> ELSE <<>>),
                        desc |-> "AddNode(" \o ntype.s \o "," \o DictRepr(nprops) \o ")"]>>)

\* AddEdge_handler.fn
AddEdgePlan(fn, g, hp) ==
    LET srcVar == DictGetOr(fn.params, "src_var", NoneV)
        dstVar == DictGetOr(fn.params, "dst_var", NoneV)
        srcId == DictGetOr(fn.params, "src_id", NoneV)
        dstId == DictGetOr(fn.params, "dst_id", NoneV)
        etype == DictGetOr(fn.params, "etype", StrV("link"))
        envs == IF PyTruth(srcVar, hp) \/ PyTruth(dstVar, hp)
                THEN MatchVars(g, fn.vars) ELSE <<<<>>>>
        src(env) == IF PyTruth(srcVar, hp) THEN EnvGet(env, srcVar) ELSE srcId.s
        dst(env) == IF PyTruth(dstVar, hp) THEN EnvGet(env, dstVar) ELSE dstId.s
        fires(env) ==
            /\ src(env) # ""
            /\ dst(env) # ""
            /\ GuardPred(fn.guards, g, env, hp) = "true"
        hits == SelectSeq(envs, fires)
    IN  Planned([i \in 1..Len(hits) |->
            [writes |-> <<WAddEdge(src(hits[i]), etype.s, dst(hits[i]))>>,
             desc |-> "AddEdge(" \o src(hits[i]) \o "," \o etype.s \o "," \o dst(hits[i]) \o ")"]])

\* SetProp_handler.fn
SetPropPlan(fn, g, hp) ==
    LET var == DictGetOr(fn.params, "var", NoneV)
        key == DictGetOr(fn.params, "key", NoneV)
        value == DictGetOr(fn.params, "value", NoneV)
        fires(env) ==
            /\ EnvGet(env, var) # ""
            /\ GuardPred(fn.guards, g, env, hp) = "true"
        hits == SelectSeq(MatchVars(g, fn.vars), fires)
    IN  Planned([i \in 1..Len(hits) |->
            LET x == EnvGet(hits[i], var)
            IN  [writes |-> <<WSetProp(x, key.s, value)>>,
                 desc |-> "SetProp(" \o x \o "," \o PyStr(key) \o "=" \o PyStr(value)
                            \o ",prev=" \o PyStr(DictGetOr(Props(g, x), key.s, NoneV)) \o ")"]])

\* Stand-in for IncPropPlan: the guard predicate is not consulted.
IncPropUnguarded(fn, g, hp) ==
    LET var == DictGetOr(fn.params, "var", NoneV)
        key == DictGetOr(fn.params, "key", NoneV)
        delta == Num(DictGetOr(fn.params, "delta", FloatV(0)))
        fires(env) == EnvGet(env, var) # ""
        hits == SelectSeq(MatchVars(g, fn.vars), fires)
        prev(env) == DictGetOr(Props(g, EnvGet(env, var)), key.s, FloatV(0))
    IN  IF \E i \in 1..Len(hits) : ~IsNum(prev(hits[i])) THEN PlanRaises
        ELSE Planned([i \in 1..Len(hits) |->
            LET x == EnvGet(hits[i], var)
            IN  [writes |-> <<WSetProp(x, key.s, FloatV(Num(prev(hits[i])) + delta))>>,
                 desc |-> "IncProp(" \o x \o "," \o PyStr(key) \o ",+" \o FloatStr(delta)
                            \o ",prev=" \o Fixed3(Num(prev(hits[i]))) \o ")"]])

\* IncProp_handler.fn: float(prev) raises on a value that is no number.
IncPropPlan(fn, g, hp) ==
    LET var == DictGetOr(fn.params, "var", NoneV)
        key == DictGetOr(fn.params, "key", NoneV)
        delta == Num(DictGetOr(fn.params, "delta", FloatV(0)))
        fires(env) ==
            /\ EnvGet(env, var) # ""
            /\ GuardPred(fn.guards, g, env, hp) = "true"
        hits == SelectSeq(MatchVars(g, fn.vars), fires)
        prev(env) == DictGetOr(Props(g, EnvGet(env, var)), key.s, FloatV(0))
    IN  IF \E i \in 1..Len(hits) : ~IsNum(prev(hits[i])) THEN PlanRaises
        ELSE Planned([i \in 1..Len(hits) |->
            LET x == EnvGet(hits[i], var)
            IN  [writes |-> <<WSetProp(x, key.s, FloatV(Num(prev(hits[i])) + delta))>>,
                 desc |-> "IncProp(" \o x \o "," \o PyStr(key) \o ",+" \o FloatStr(delta)
                            \o ",prev=" \o Fixed3(Num(prev(hits[i]))) \o ")"]])

\* Stand-in for DeleteArgMinPlan: the count test is len(nodes) < mk.
DeleteArgMinBelowKeep(fn, g, hp) ==
    LET ntype == DictGetOr(fn.params, "type", NoneV)
        key == DictGetOr(fn.params, "key", NoneV)
        mk == Num(DictGetOr(fn.params, "min_keep", IntV(0))) \div 100
        nodes == IF PyTruth(ntype, hp) THEN Find(g, ntype.s) ELSE <<>>
        val(i) == DictGetOr(Props(g, nodes[i]), key.s, FloatV(0))
        least == CHOOSE i \in 1..Len(nodes) :
                    \A j \in 1..Len(nodes) :
                        Num(val(i)) < Num(val(j)) \/ (Num(val(i)) = Num(val(j)) /\ i <= j)
        shortest == nodes[least]
    IN  IF Len(nodes) < mk \/ nodes = <<>> THEN Planned(<<>>)
        ELSE IF GuardPred(fn.guards, g, <<[k |-> "x", v |-> shortest]>>, hp) # "true"
        THEN Planned(<<>>)
        ELSE Planned(<<[writes |-> <<WDelNode(shortest)>>,
                        desc |-> "DeleteArgMin(" \o PyStr(ntype) \o "," \o PyStr(key)
                                   \o " -> " \o shortest \o ")"]>>)

\* DeleteArgMin_handler.fn: min() takes the first node of the least key, and
\* raises when it compares values that are no numbers.
DeleteArgMinPlan(fn, g, hp) ==
    LET ntype == DictGetOr(fn.params, "type", NoneV)
        key == DictGetOr(fn.params, "key", NoneV)
        mk == Num(DictGetOr(fn.params, "min_keep", IntV(0))) \div 100
        nodes == IF PyTruth(ntype, hp) THEN Find(g, ntype.s) ELSE <<>>
        val(i) == DictGetOr(Props(g, nodes[i]), key.s, FloatV(0))
        least == CHOOSE i \in 1..Len(nodes) :
                    \A j \in 1..Len(nodes) :
                        Num(val(i)) < Num(val(j)) \/ (Num(val(i)) = Num(val(j)) /\ i <= j)
        shortest == nodes[least]
    IN  IF Len(nodes) <= mk THEN Planned(<<>>)
        ELSE IF Len(nodes) > 1 /\ \E i \in 1..Len(nodes) : ~IsNum(val(i)) THEN PlanRaises
        ELSE IF GuardPred(fn.guards, g, <<[k |-> "x", v |-> shortest]>>, hp) # "true"
        THEN Planned(<<>>)
        ELSE Planned(<<[writes |-> <<WDelNode(shortest)>>,
                        desc |-> "DeleteArgMin(" \o PyStr(ntype) \o "," \o PyStr(key)
                                   \o " -> " \o shortest \o ")"]>>)

HandlerPlan(fn, g, hp) ==
    CASE fn.kind = "AddNode" -> AddNodePlan(fn, g, hp)
      [] fn.kind = "AddEdge" -> AddEdgePlan(fn, g, hp)
      [] fn.kind = "SetProp" -> SetPropPlan(fn, g, hp)
      [] fn.kind = "IncProp" -> IncPropPlan(fn, g, hp)
      [] fn.kind = "DeleteArgMin" -> DeleteArgMinPlan(fn, g, hp)

\* Stand-in for CloneObj that hands back the object itself.
AliasObj(store, id) == [store |-> store, id |-> id]

\* g.clone(): a new Graph object.
CloneObj(store, id) == [store |-> Append(store, Clone(store[id])), id |-> Len(store) + 1]

\* Stand-in for RunPlan: the writes go to the input, which is cloned after.
RECURSIVE RunPlanInPlace(_, _, _, _)
RunPlanInPlace(store, gid, items, outs) ==
    IF items = <<>> THEN [status |-> "ok", store |-> store, outs |-> outs]
    ELSE LET c == CloneObj([store EXCEPT ![gid] = ApplyWrites(@, Head(items).writes)], gid)
         IN  RunPlanInPlace(c.store, gid, Tail(items),
                            Append(outs, [new_graph |-> c.id, desc |-> Head(items).desc]))

\* The loop of a rewrite function over its plan: clone the input, write to
\* the clone, append RuleResult(ng, desc).
RECURSIVE RunPlan(_, _, _, _)
RunPlan(store, gid, items, outs) ==
    IF items = <<>> THEN [status |-> "ok", store |-> store, outs |-> outs]
    ELSE CHOOSE run \in {RunPlan([c.store EXCEPT ![c.id] = ApplyWrites(@, Head(items).writes)],
                                 gid, Tail(items),
                                 Append(outs, [new_graph |-> c.id, desc |-> Head(items).desc])) :
                         c \in {CloneObj(store, gid)}} : TRUE

\* fn(g) for a compiled rewrite function fn and the graph object gid.
RunFn(store, gid, fn, hp) ==
    CHOOSE run \in {IF plan.status = "raise"
                    THEN [status |-> "raise", store |-> store, outs |-> <<>>]
                    ELSE RunPlan(store, gid, plan.items, <<>>) :
                    plan \in {HandlerPlan(fn, store[gid], hp)}} : TRUE

(***************************************************************************)
(* SpecCompile: an installer has written a rule graph with the schema      *)
(* helpers; it is compiled against a registry, and the rewrite functions   *)
(* are called on artifact graphs.                                          *)
(***************************************************************************)
MaxCompileRules == 2

MaxApplies == 2

RuleSpec(kind, params, varDecls, guards) ==
    [kind |-> kind, params |-> params, vars |-> varDecls, guards |-> guards]

XofT == <<[var |-> "x", type |-> "T"]>>

RuleSpecs ==
    {RuleSpec("AddNode", <<[k |-> "type", v |-> StrV("Segment")], [k |-> "props", v |-> RefV(1)]>>,
              <<>>, <<>>),
     RuleSpec("AddNode", <<[k |-> "type", v |-> StrV("Segment")], [k |-> "props", v |-> RefV(1)],
                           [k |-> "parent", v |-> StrV("root")]>>, <<>>, <<>>),
     RuleSpec("SetProp", <<[k |-> "var", v |-> StrV("x")], [k |-> "key", v |-> StrV("k")],
                           [k |-> "value", v |-> IntV(1)]>>, XofT, <<>>),
     RuleSpec("SetProp", <<[k |-> "var", v |-> StrV("x")], [k |-> "key", v |-> StrV("k")],
                           [k |-> "value", v |-> IntV(1)]>>, XofT,
              <<[var |-> "x", key |-> "k", op |-> "<", value |-> IntV(1)]>>),
     RuleSpec("IncProp", <<[k |-> "var", v |-> StrV("x")], [k |-> "key", v |-> StrV("k")],
                           [k |-> "delta", v |-> FloatV(70)]>>, XofT, <<>>),
     RuleSpec("AddEdge", <<[k |-> "src_var", v |-> StrV("x")], [k |-> "dst_var", v |-> StrV("y")]>>,
              <<[var |-> "x", type |-> "T"], [var |-> "y", type |-> "T"]>>, <<>>),
     RuleSpec("DeleteArgMin", <<[k |-> "type", v |-> StrV("T")], [k |-> "key", v |-> StrV("k")],
                                [k |-> "min_keep", v |-> IntV(1)]>>, <<>>, <<>>),
     RuleSpec("Bogus", <<>>, <<>>, <<>>),
     RuleSpec("", <<>>, <<>>, <<>>)}

RECURSIVE InstallParams(_, _, _)
InstallParams(g, rid, ps) ==
    IF ps = <<>> THEN g ELSE InstallParams(AddParam(g, rid, Head(ps).k, Head(ps).v), rid, Tail(ps))

RECURSIVE InstallVars(_, _, _)
InstallVars(g, rid, vs) ==
    IF vs = <<>> THEN g ELSE InstallVars(AddVar(g, rid, Head(vs).var, Head(vs).type), rid, Tail(vs))

RECURSIVE InstallGuards(_, _, _)
InstallGuards(g, rid, gs) ==
    IF gs = <<>> THEN g
    ELSE InstallGuards(AddGuard(g, rid, Head(gs).var, Head(gs).key, Head(gs).op, Head(gs).value),
                       rid, Tail(gs))

\* add_rule, then add_param, add_var and add_guard for what the rule declares.
InstallRule(g, rid, spec) ==
    InstallGuards(InstallVars(InstallParams(AddRule(g, rid, rid, spec.kind), rid, spec.params),
                              rid, spec.vars),
                  rid, spec.guards)

RECURSIVE InstallRules(_, _, _)
InstallRules(g, specs, i) ==
    IF i > Len(specs) THEN g
    ELSE InstallRules(InstallRule(g, "r" \o IntStr(i), specs[i]), specs, i + 1)

RuleGraphs ==
    {InstallRules(AddRuleset(EmptyGraph, "ruleset", <<>>), specs, 1) :
        specs \in UNION {[1..n -> RuleSpecs] : n \in 0..MaxCompileRules}}

Registries == {RegistryStd, {"AddNode", "SetProp"}}

RootOnly == AddNode(EmptyGraph, "root", "Root", <<>>)

Artifacts ==
    {RootOnly,
     AddNode(RootOnly, "a", "T", <<[k |-> "k", v |-> IntV(0)]>>),
     AddEdge(AddNode(AddNode(EmptyGraph, "a", "T", <<[k |-> "k", v |-> IntV(1)], [k |-> "j", v |-> RefV(1)]>>),
                     "b", "T", <<[k |-> "k", v |-> IntV(0)]>>),
             "a", "l", "b")}

CompileInit ==
    /\ cRg \in RuleGraphs
    /\ cRegistry \in Registries
    /\ cResult = [status |-> "none", fns |-> <<>>]
    /\ cStore \in {<<g>> : g \in Artifacts}
    /\ cRun = [fn |-> 0, on |-> 0, status |-> "none", outs |-> <<>>]
    /\ cApplied = 0
    /\ GraphStart
    /\ GuardIdle
    /\ MatchIdle
    /\ RulesIdle
    /\ SearchIdle
    /\ BuilderIdle

\* What a rewrite function reads when it is called: params and vars were
\* copied at compile time, while the guard list holds the props dicts of the
\* Guard nodes the rule had then, the very objects of the rule graph g.
\* Edges are only ever appended, so they are the first of the rule's guards.
ClosedOver(fn, g) == [fn EXCEPT !.guards = SubSeq(GetGuards(g, fn.rid), 1, Len(fn.guards))]

\* fns = compile_rules_from_pgr(rg, ctx), the first time or again.
CompileCall ==
    /\ cResult.status \in {"none", "ok"}
    /\ cResult' = CompileRulesFromPgr(cRg, cRegistry)
    /\ UNCHANGED <<cRg, cRegistry, cStore, cRun, cApplied, notCompileVars>>

\* results = fns[i](g) for a graph object g the caller holds.
ApplyCall ==
    \E i \in 1..Len(cResult.fns), gid \in 1..Len(cStore) :
        /\ cResult.status = "ok"
        /\ cApplied < MaxApplies
        /\ LET run == RunFn(cStore, gid, ClosedOver(cResult.fns[i], cRg), InitHeap)
           IN  /\ cStore' = run.store
               /\ cRun' = [fn |-> i, on |-> gid, status |-> run.status, outs |-> run.outs]
        /\ cApplied' = cApplied + 1
        /\ UNCHANGED <<cRg, cRegistry, cResult, notCompileVars>>

CompileNext ==
    \/ CompileCall
    \/ ApplyCall

SpecCompile == CompileInit /\ [][CompileNext]_vars

\* The ids of the Rule nodes, in node iteration order.
RuleNodeIds(g) == Find(g, "Rule")

\* Some Rule node's kind has no handler in the registry.
SomeKindUnhandled ==
    \E i \in 1..Len(cRg.nodes) :
        /\ cRg.nodes[i].v.type = "Rule"
        /\ DictHas(cRg.nodes[i].v.props, "kind")
        /\ \/ DictGet(cRg.nodes[i].v.props, "kind").t # "str"
           \/ DictGet(cRg.nodes[i].v.props, "kind").s \notin cRegistry

\* C11 (as claimed): compilation leaves the rule graph as it was, and raises
\* (returns no list) whenever some Rule node's kind has no handler.
C11_CompileFailsFast ==
    [][cResult' # cResult =>
          /\ cRg' = cRg
          /\ (SomeKindUnhandled => cResult'.status # "ok")]_vars

\* C12 (as claimed): a successful compilation returns one function per Rule
\* node, in node iteration order.
C12_OneFunctionPerRule ==
    cResult.status = "ok" =>
        /\ Len(cResult.fns) = Len(RuleNodeIds(cRg))
        /\ \A i \in 1..Len(cResult.fns) : cResult.fns[i].rid = RuleNodeIds(cRg)[i]

\* C13: a call of a rewrite function built by a standard handler leaves every
\* graph object that existed before the call, its input among them, with the
\* same nodes, types, property values and edge list, and each candidate it
\* returns is an object of its own, created by the call.
C13_HandlersLeaveInput ==
    [][cApplied' # cApplied =>
          /\ \A id \in 1..Len(cStore) :
                /\ cStore'[id] = cStore[id]
                /\ DeepView(cStore'[id], InitHeap) = DeepView(cStore[id], InitHeap)
          /\ \A i \in 1..Len(cRun'.outs) :
                /\ cRun'.outs[i].new_graph > Len(cStore)
                /\ cRun'.outs[i].new_graph <= Len(cStore')
                /\ \A j \in 1..Len(cRun'.outs) :
                      cRun'.outs[i].new_graph = cRun'.outs[j].new_graph => i = j]_vars

\* C13 witness: a call returned two candidates, each differing from its input.
C13_Witness ==
    /\ cRun.status = "ok"
    /\ Len(cRun.outs) = 2
    /\ \A i \in 1..2 : cStore[cRun.outs[i].new_graph] # cStore[cRun.on]

\* The rule graph of the scenario: one AddNode rule, type Segment, length 0.9.
SegmentRuleGraph ==
    InstallRule(AddRuleset(EmptyGraph, "ruleset", <<>>), "r1",
        RuleSpec("AddNode", <<[k |-> "type", v |-> StrV("Segment")], [k |-> "props", v |-> RefV(1)]>>,
                 <<>>, <<>>))

SegmentScenario ==
    /\ cRg = SegmentRuleGraph
    /\ cRegistry = RegistryStd
    /\ cApplied = 1
    /\ cStore[1] = RootOnly

\* C14: in the scenario the one call yields exactly one candidate, holding
\* the root as it was and one Segment node, whose length is 0.9.
C14_SegmentScenario ==
    SegmentScenario =>
        /\ cRun.status = "ok"
        /\ Len(cRun.outs) = 1
        /\ LET c == cStore[cRun.outs[1].new_graph]
           IN  /\ Len(Find(c, "Segment")) = 1
               /\ Props(c, Find(c, "Segment")[1]) = <<[k |-> "length", v |-> FloatV(90)]>>
               /\ Len(c.nodes) = 2
               /\ HasNode(c, "root")
               /\ DictGet(c.nodes, "root") = DictGet(RootOnly.nodes, "root")
               /\ c.edges = <<>>

\* C14 witness: the scenario has run.
C14_Witness ==
    /\ SegmentScenario
    /\ cRun.fn = 1
    /\ cRun.outs # <<>>
    /\ HasNode(cStore[cRun.outs[1].new_graph], "segment1")

(***************************************************************************)
(* SpecRewrite: a caller compiles a rule graph of rewrites on the nodes of *)
(* type T, follows a sequence of rewrites from a seed graph, and between   *)
(* two rewrites may upsert a guard on the first rule and compile again.    *)
(***************************************************************************)
MaxRewrites == 4

RewriteSpecs ==
    {RuleSpec("AddNode", <<[k |-> "type", v |-> StrV("T")]>>, <<>>, <<>>),
     RuleSpec("DeleteArgMin", <<[k |-> "type", v |-> StrV("T")], [k |-> "key", v |-> StrV("k")],
                                [k |-> "min_keep", v |-> IntV(1)]>>, <<>>, <<>>),
     RuleSpec("IncProp", <<[k |-> "var", v |-> StrV("x")], [k |-> "key", v |-> StrV("k")],
                           [k |-> "delta", v |-> FloatV(70)]>>, XofT, <<>>)}

RewriteRuleGraphs ==
    {InstallRules(AddRuleset(EmptyGraph, "ruleset", <<>>), specs, 1) :
        specs \in UNION {[1..n -> RewriteSpecs] : n \in 1..MaxCompileRules}}

\* A seed with three nodes of type T and edges among them and from the root.
Ring ==
    AddEdge(AddEdge(AddEdge(AddEdge(
        AddNode(AddNode(AddNode(RootOnly, "a", "T", <<[k |-> "k", v |-> IntV(1)]>>),
                        "b", "T", <<[k |-> "k", v |-> IntV(0)]>>),
                "c", "T", <<[k |-> "k", v |-> IntV(2)]>>),
        "root", "has", "a"), "a", "l", "b"), "b", "l", "c"), "c", "l", "a")

RewriteSeeds == {EmptyGraph, Ring}

\* The guard edits of the caller: x.k < value on the rule named r1.
GuardEdits == [rule_name : {"r1"}, value : {IntV(1), IntV(2)}]

RewriteInit ==
    /\ cRg \in RewriteRuleGraphs
    /\ cRegistry = RegistryStd
    /\ cResult = [status |-> "none", fns |-> <<>>]
    /\ cStore \in {<<g>> : g \in RewriteSeeds}
    /\ cRun = [fn |-> 0, on |-> 0, status |-> "none", outs |-> <<>>]
    /\ cApplied = 0
    /\ GraphStart
    /\ GuardIdle
    /\ MatchIdle
    /\ RulesIdle
    /\ SearchIdle
    /\ BuilderIdle

\* The graphs a sequence of rewrites goes on from: the seed, then the input
\* or a candidate of the latest call.
Held ==
    IF cApplied = 0 THEN {1}
    ELSE {cRun.on} \cup {cRun.outs[i].new_graph : i \in 1..Len(cRun.outs)}

\* results = fns[i](g), the next rewrite of the sequence.
RewriteCall ==
    \E i \in 1..Len(cResult.fns), gid \in Held :
        /\ cResult.status = "ok"
        /\ cApplied < MaxRewrites
        /\ LET run == RunFn(cStore, gid, ClosedOver(cResult.fns[i], cRg), InitHeap)
           IN  /\ cStore' = run.store
               /\ cRun' = [fn |-> i, on |-> gid, status |-> run.status, outs |-> run.outs]
        /\ cApplied' = cApplied + 1
        /\ UNCHANGED <<cRg, cRegistry, cResult, notCompileVars>>

\* upsert_threshold_guard(rg, ...) on the rule graph that was compiled.
UpsertCall ==
    \E e \in GuardEdits :
        /\ cResult.status = "ok"
        /\ cRg' = UpsertThresholdGuard(cRg, e.rule_name, "x", "k", "<", e.value).g
        /\ UNCHANGED <<cRegistry, cResult, cStore, cRun, cApplied, notCompileVars>>

RewriteNext ==
    \/ CompileCall
    \/ RewriteCall
    \/ UpsertCall

SpecRewrite == RewriteInit /\ [][RewriteNext]_vars

\* The function of the latest call, as it was when called (read in a step
\* that makes a call), the graph it was called on and its candidates.
CalledFn == ClosedOver(cResult.fns[cRun'.fn], cRg)

CallInput == cStore[cRun'.on]

Candidate(i) == cStore'[cRun'.outs[i].new_graph]

\* The key value min() ranks a node by: props.get(key, 0.0), in hundredths.
KeyOf(g, nid, key) == Num(DictGetOr(Props(g, nid), key, FloatV(0)))

\* The nodes of the type whose key value is least.
ArgMins(g, ntype, key) ==
    {Find(g, ntype)[i] : i \in {j \in 1..Len(Find(g, ntype)) :
        \A m \in 1..Len(Find(g, ntype)) :
            KeyOf(g, Find(g, ntype)[j], key) <= KeyOf(g, Find(g, ntype)[m], key)}}

\* Every guard of the function, each an x.key < value, holds of the node.
GuardsPass(fn, g, nid) ==
    \A i \in 1..Len(fn.guards) :
        /\ DictHas(Props(g, nid), DictGet(fn.guards[i], "key").s)
        /\ Num(DictGet(Props(g, nid), DictGet(fn.guards[i], "key").s))
              < Num(DictGet(fn.guards[i], "value"))

\* C31: a call of a DeleteArgMin function returns no candidate on a graph
\* with at most min_keep nodes of the type; on a larger one it returns one
\* candidate when the guard passes on a node of least key, and that candidate
\* is the input without that one node, so it keeps min_keep nodes or more;
\* it returns none when the guard fails on a node of least key.
C31_DeleteArgMinKeeps ==
    [][(cApplied' # cApplied /\ CalledFn.kind = "DeleteArgMin") =>
          LET ntype == DictGet(CalledFn.params, "type").s
              key == DictGet(CalledFn.params, "key").s
              mk == DictGet(CalledFn.params, "min_keep").n
              n == Len(Find(CallInput, ntype))
          IN  /\ cRun'.status = "ok"
              /\ Len(cRun'.outs) <= 1
              /\ n <= mk => cRun'.outs = <<>>
              /\ (n > mk /\ cRun'.outs = <<>>) =>
                     \E x \in ArgMins(CallInput, ntype, key) : ~GuardsPass(CalledFn, CallInput, x)
              /\ cRun'.outs # <<>> =>
                     /\ \E x \in ArgMins(CallInput, ntype, key) :
                            /\ GuardsPass(CalledFn, CallInput, x)
                            /\ Candidate(1).nodes = DictDel(CallInput.nodes, x)
                     /\ Len(Find(Candidate(1), ntype)) = n - 1
                     /\ Len(Find(Candidate(1), ntype)) >= mk]_vars

\* C31 witness: after an earlier rewrite, a DeleteArgMin function under a
\* guard removed one of several nodes and left exactly min_keep of them.
C31_Witness ==
    /\ cApplied >= 2
    /\ cRun.status = "ok"
    /\ cResult.status = "ok"
    /\ cRun.fn <= Len(cResult.fns)
    /\ cResult.fns[cRun.fn].kind = "DeleteArgMin"
    /\ cResult.fns[cRun.fn].guards # <<>>
    /\ Len(cRun.outs) = 1
    /\ Len(Find(cStore[cRun.on], "T")) = 2
    /\ Len(Find(cStore[cRun.outs[1].new_graph], "T")) = 1

\* C35 (as claimed): every candidate of an AddNode call holds one node of the
\* type more than the input, and every node of the input as it was.
C35_AddNodeAddsOne ==
    [][(cApplied' # cApplied /\ CalledFn.kind = "AddNode") =>
          \A i \in 1..Len(cRun'.outs) :
              /\ Len(Find(Candidate(i), DictGet(CalledFn.params, "type").s))
                    = Len(Find(CallInput, DictGet(CalledFn.params, "type").s)) + 1
              /\ \A n \in 1..Len(CallInput.nodes) :
                     /\ HasNode(Candidate(i), CallInput.nodes[n].k)
                     /\ DictGet(Candidate(i).nodes, CallInput.nodes[n].k) = CallInput.nodes[n].v]_vars

\* C34 (as claimed): a call of a compiled function returns the candidates
\* that the guards it was compiled with dictate, whatever guard was upserted
\* on the rule graph since.
C34_ClosedAtCompile ==
    [][cApplied' # cApplied =>
          /\ cRun'.status = RunFn(cStore, cRun'.on, cResult.fns[cRun'.fn], InitHeap).status
          /\ cRun'.outs = RunFn(cStore, cRun'.on, cResult.fns[cRun'.fn], InitHeap).outs
          /\ cStore' = RunFn(cStore, cRun'.on, cResult.fns[cRun'.fn], InitHeap).store]_vars

\* The rule graph was compiled after its latest edit, and the rule of the
\* function carries a guard.
GuardCompiledIn(fn) ==
    /\ cResult = CompileRulesFromPgr(cRg, cRegistry)
    /\ GetGuards(cRg, fn.rid) # <<>>

\* The threshold T of the guard x.k < T upserted on the rule, in hundredths.
Threshold(fn) == Num(DictGet(GetGuards(cRg, fn.rid)[1], "value"))

\* C37: an IncProp function compiled after the upsert of a guard x.k < T
\* returns one candidate per node of the variable's type whose k is below T,
\* in node order, none for a node whose k is T or more or missing; the
\* candidate is the input with that node's k set to the previous value plus
\* delta, which is below T + delta, and nothing else changed.
C37_GuardEnforced ==
    [][(cApplied' # cApplied /\ CalledFn.kind = "IncProp" /\ GuardCompiledIn(CalledFn)) =>
          LET T == Threshold(CalledFn)
              delta == Num(DictGet(CalledFn.params, "delta"))
              below == SelectSeq(Find(CallInput, "T"), LAMBDA x :
                           /\ DictHas(Props(CallInput, x), "k")
                           /\ Num(DictGet(Props(CallInput, x), "k")) < T)
          IN  /\ cRun'.status = "ok"
              /\ Len(cRun'.outs) = Len(below)
              /\ \A i \in 1..Len(below) :
                     /\ Candidate(i).edges = CallInput.edges
                     /\ Len(Candidate(i).nodes) = Len(CallInput.nodes)
                     /\ \A n \in 1..Len(CallInput.nodes) :
                            /\ Candidate(i).nodes[n].k = CallInput.nodes[n].k
                            /\ Candidate(i).nodes[n].v.type = CallInput.nodes[n].v.type
                            /\ CallInput.nodes[n].k # below[i] =>
                                   Candidate(i).nodes[n] = CallInput.nodes[n]
                     /\ Len(Props(Candidate(i), below[i])) = Len(Props(CallInput, below[i]))
                     /\ \A q \in 1..Len(Props(CallInput, below[i])) :
                            /\ Props(Candidate(i), below[i])[q].k = Props(CallInput, below[i])[q].k
                            /\ Props(CallInput, below[i])[q].k # "k" =>
                                   Props(Candidate(i), below[i])[q] = Props(CallInput, below[i])[q]
                     /\ DictGet(Props(Candidate(i), below[i]), "k")
                           = FloatV(Num(DictGet(Props(CallInput, below[i]), "k")) + delta)
                     /\ Num(DictGet(Props(Candidate(i), below[i]), "k")) < T + delta]_vars

\* C37 witness: the second IncProp rewrite under a guard compiled in wrote
\* 1.4 to a node and refused the two other nodes of the type.
C37_Witness ==
    /\ cApplied >= 2
    /\ cRun.status = "ok"
    /\ cResult.status = "ok"
    /\ cRun.fn <= Len(cResult.fns)
    /\ cResult.fns[cRun.fn].kind = "IncProp"
    /\ GuardCompiledIn(cResult.fns[cRun.fn])
    /\ Len(cRun.outs) = 1
    /\ Len(Find(cStore[cRun.on], "T")) = 3
    /\ \E x \in {"a", "b", "c"} :
           /\ DictGet(Props(cStore[cRun.on], x), "k") = FloatV(70)
           /\ DictGet(Props(cStore[cRun.outs[1].new_graph], x), "k") = FloatV(140)

\* The node a DeleteArgMin call removed: the one its input has and its
\* candidate has not.
Deleted == {x \in {cStore[cRun.on].nodes[n].k : n \in 1..Len(cStore[cRun.on].nodes)} :
               ~HasNode(cStore[cRun.outs[1].new_graph], x)}

\* C36: the candidate of a DeleteArgMin call is its input without one node:
\* no edge of it starts or ends at that node, every other node is as it was,
\* and its edge list is the input's without the edges touching that node.
C36_DeleteDropsEdges ==
    [][(cApplied' # cApplied /\ CalledFn.kind = "DeleteArgMin" /\ cRun'.outs # <<>>) =>
          \E x \in {CallInput.nodes[n].k : n \in 1..Len(CallInput.nodes)} :
              /\ ~HasNode(Candidate(1), x)
              /\ \A e \in 1..Len(Candidate(1).edges) :
                     Candidate(1).edges[e][1] # x /\ Candidate(1).edges[e][3] # x
              /\ Candidate(1).nodes = SelectSeq(CallInput.nodes, LAMBDA n : n.k # x)
              /\ Candidate(1).edges = SelectSeq(CallInput.edges, LAMBDA e : e[1] # x /\ e[3] # x)
              /\ DeepView(Candidate(1), InitHeap)
                    = DeepView([nodes |-> SelectSeq(CallInput.nodes, LAMBDA n : n.k # x),
                                edges |-> SelectSeq(CallInput.edges, LAMBDA e : e[1] # x /\ e[3] # x)],
                               InitHeap)]_vars

\* C36 witness: the deleted node had an edge into it and an edge out of it,
\* and the candidate kept two edges.
C36_Witness ==
    /\ cRun.status = "ok"
    /\ cResult.status = "ok"
    /\ cRun.fn <= Len(cResult.fns)
    /\ cResult.fns[cRun.fn].kind = "DeleteArgMin"
    /\ Len(cRun.outs) = 1
    /\ \E x \in Deleted :
           /\ \E e \in 1..Len(cStore[cRun.on].edges) : cStore[cRun.on].edges[e][1] = x
           /\ \E e \in 1..Len(cStore[cRun.on].edges) : cStore[cRun.on].edges[e][3] = x
    /\ Len(cStore[cRun.outs[1].new_graph].edges) = 2

(***************************************************************************)
(* builder_core.py: reduce_threshold and default_accept_policy.  A real    *)
(* number is an exact fraction [n, d] of hundredths, d > 0, in lowest      *)
(* terms.                                                                  *)
(***************************************************************************)
Abs(n) == IF n < 0 THEN -n ELSE n

RECURSIVE Gcd(_, _)
Gcd(a, b) == IF b = 0 THEN a ELSE Gcd(b, a % b)

Rat(n, d) == LET g == Gcd(Abs(n), d) IN [n |-> n \div g, d |-> d \div g]

RatAdd(a, b) == Rat(a.n * b.d + b.n * a.d, a.d * b.d)

RatLessEq(a, b) == a.n * b.d <= b.n * a.d

RECURSIVE SumSeq(_)
SumSeq(s) == IF s = <<>> THEN 0 ELSE Head(s) + SumSeq(Tail(s))

\* Mutant of Median: the middle of the samples as given.
MiddleUnsorted(samples) ==
    LET n == Len(samples)
    IN  IF n % 2 = 1 THEN Rat(samples[(n \div 2) + 1], 1)
        ELSE Rat(samples[n \div 2] + samples[(n \div 2) + 1], 2)

\* statistics.median of a non-empty list
Median(samples) ==
    LET data == Sorted(samples, samples)
        n == Len(data)
    IN  IF n % 2 = 1 THEN Rat(data[(n \div 2) + 1], 1)
        ELSE Rat(data[n \div 2] + data[(n \div 2) + 1], 2)

\* sum(samples) / len(samples)
Mean(samples) == Rat(SumSeq(samples), Len(samples))

\* Mutant of ReduceThreshold: no samples give the margin alone.
ReduceOrZero(samples, epsilon, reducer) ==
    IF reducer \notin {"median", "mean"} THEN [status |-> "ValueError"]
    ELSE [status |-> "ok",
          t |-> IF samples = <<>> THEN Rat(epsilon, 1)
                ELSE IF reducer = "median" THEN RatAdd(Median(samples), Rat(epsilon, 1))
                ELSE RatAdd(Mean(samples), Rat(epsilon, 1))]

\* reduce_threshold: None for no samples, ValueError for an unknown reducer.
ReduceThreshold(samples, epsilon, reducer) ==
    IF samples = <<>> THEN [status |-> "None"]
    ELSE IF reducer = "median"
    THEN [status |-> "ok", t |-> RatAdd(Median(samples), Rat(epsilon, 1))]
    ELSE IF reducer = "mean"
    THEN [status |-> "ok", t |-> RatAdd(Mean(samples), Rat(epsilon, 1))]
    ELSE [status |-> "ValueError"]

\* Mutant of DefaultAcceptPolicy: a margin of 0.5.
AcceptPolicyHalf(before, after) ==
    \/ after.feasible_count > before.feasible_count
    \/ RatLessEq(after.avg_cost, RatAdd(before.avg_cost, Rat(-50, 1)))

\* default_accept_policy
DefaultAcceptPolicy(before, after) ==
    \/ after.feasible_count > before.feasible_count
    \/ RatLessEq(after.avg_cost, RatAdd(before.avg_cost, Rat(-100, 1)))

(***************************************************************************)
(* SpecReduce: one call of reduce_threshold.                               *)
(***************************************************************************)
MaxSamples == 3

SampleValues == {100, 120, 140, 1000}

Margins == {0, 5}

Reducers == {"median", "mean", "mode"}

ReduceInit ==
    /\ rdArgs \in {[samples |-> s, epsilon |-> e, reducer |-> r] :
                     s \in UNION {[1..n -> SampleValues] : n \in 0..MaxSamples},
                     e \in Margins, r \in Reducers}
    /\ rdResult = [status |-> "none"]
    /\ PolicyIdle
    /\ SynthIdle
    /\ GraphStart
    /\ GuardIdle
    /\ MatchIdle
    /\ RulesIdle
    /\ SearchIdle
    /\ CompileIdle

ReduceCall ==
    /\ rdResult.status = "none"
    /\ rdResult' = ReduceThreshold(rdArgs.samples, rdArgs.epsilon, rdArgs.reducer)
    /\ UNCHANGED <<rdArgs, policyVars, synthVars, notBuilderVars>>

ReduceNext == ReduceCall

SpecReduce == ReduceInit /\ [][ReduceNext]_vars

\* Number of samples below, and above, the fraction x.
Below(samples, x) == Cardinality({i \in 1..Len(samples) : samples[i] * x.d < x.n})

Above(samples, x) == Cardinality({i \in 1..Len(samples) : samples[i] * x.d > x.n})

\* Whether x is the median of the samples: at most half of them lie below it
\* and at most half above it, and it is a sample or, for an even number of
\* samples, the midpoint of the two samples that enclose the middle.
IsMedian(samples, x) ==
    LET n == Len(samples)
    IN  /\ 2 * Below(samples, x) <= n
        /\ 2 * Above(samples, x) <= n
        /\ \/ \E i \in 1..n : x = Rat(samples[i], 1)
           \/ /\ n % 2 = 0
              /\ \E i, j \in 1..n :
                     /\ x = Rat(samples[i] + samples[j], 2)
                     /\ samples[i] < samples[j]
                     /\ \A k \in 1..n : samples[k] <= samples[i] \/ samples[k] >= samples[j]

\* C26: for a non-empty list reduce_threshold returns the median plus the
\* margin (median reducer) or the arithmetic mean plus the margin (mean
\* reducer); [1.0, 1.2, 1.4] with margin 0.05 gives 1.25 under both, and
\* [1.0, 1.0, 10.0] gives 1.05 under median and 4.05 under mean.
C26_Reducers ==
    (rdResult.status # "none" /\ rdArgs.samples # <<>> /\ rdArgs.reducer \in {"median", "mean"}) =>
        LET s == rdArgs.samples
            m == RatAdd(rdResult.t, Rat(-rdArgs.epsilon, 1))
        IN  /\ rdResult.status = "ok"
            /\ rdArgs.reducer = "median" => IsMedian(s, m)
            /\ rdArgs.reducer = "mean" => m.n * Len(s) = SumSeq(s) * m.d
            /\ (s = <<100, 120, 140>> /\ rdArgs.epsilon = 5) => rdResult.t = [n |-> 125, d |-> 1]
            /\ (s = <<100, 100, 1000>> /\ rdArgs.epsilon = 5) =>
                   rdResult.t = [n |-> IF rdArgs.reducer = "median" THEN 105 ELSE 405, d |-> 1]

\* C26 witness: the mean reducer has returned 4.05 for [1.0, 1.0, 10.0] with
\* margin 0.05.
C26_Witness ==
    /\ rdArgs # <<>>
    /\ rdArgs.samples = <<100, 100, 1000>>
    /\ rdArgs.epsilon = 5
    /\ rdArgs.reducer = "mean"
    /\ rdResult = [status |-> "ok", t |-> [n |-> 405, d |-> 1]]

(***************************************************************************)
(* SpecPolicy: one call of default_accept_policy.                          *)
(***************************************************************************)
MaxCount == 2

AvgCosts == {Rat(h, d) : h \in {100, 150, 200, 250}, d \in {1, 3}}

Aggregates == {[feasible_count |-> f, avg_cost |-> c] : f \in 0..MaxCount, c \in AvgCosts}

PolicyInit ==
    /\ apArgs \in {[before |-> b, after |-> a] : b \in Aggregates, a \in Aggregates}
    /\ apResult = "none"
    /\ ReduceIdle
    /\ SynthIdle
    /\ GraphStart
    /\ GuardIdle
    /\ MatchIdle
    /\ RulesIdle
    /\ SearchIdle
    /\ CompileIdle

PolicyCall ==
    /\ apResult = "none"
    /\ apResult' = IF DefaultAcceptPolicy(apArgs.before, apArgs.after) THEN "accept" ELSE "reject"
    /\ UNCHANGED <<apArgs, reduceVars, synthVars, notBuilderVars>>

PolicyNext == PolicyCall

SpecPolicy == PolicyInit /\ [][PolicyNext]_vars

\* The drop of the average cost from before to after, as a fraction.
CostDrop == RatAdd(apArgs.before.avg_cost, Rat(-apArgs.after.avg_cost.n, apArgs.after.avg_cost.d))

\* C27: the policy accepts exactly when the feasible count rose or the
\* average cost dropped by 1.0 or more; with equal feasible counts a drop of
\* exactly 0.5 is rejected and a drop of exactly 1.0 is accepted.
C27_AcceptPolicy ==
    apResult \in {"accept", "reject"} =>
        LET rose == apArgs.after.feasible_count > apArgs.before.feasible_count
            same == apArgs.after.feasible_count = apArgs.before.feasible_count
        IN  /\ apResult = "accept" <=> (rose \/ CostDrop.n >= 100 * CostDrop.d)
            /\ (same /\ CostDrop = [n |-> 50, d |-> 1]) => apResult = "reject"
            /\ (same /\ CostDrop = [n |-> 100, d |-> 1]) => apResult = "accept"

\* C27 witness: with equal feasible counts, a drop of exactly 1.0 was accepted.
C27_Witness ==
    /\ apResult = "accept"
    /\ apArgs.after.feasible_count = apArgs.before.feasible_count
    /\ CostDrop = [n |-> 100, d |-> 1]

(***************************************************************************)
(* builder_core.py: propose_and_eval_guard.  search() is called as a       *)
(* function here: it returns the best graph, its metrics and the           *)
(* provenance steps.                                                       *)
(***************************************************************************)
\* The element of a one-element set: Only({F(x) : x \in {e}}) is F(e) with e
\* computed once.
Only(S) == CHOOSE x \in S : TRUE

\* r(g) for a compiled rewrite function r, the results as graphs.
CallFn(fn, g) ==
    Only({[i \in 1..Len(run.outs) |->
              [new_graph |-> run.store[run.outs[i].new_graph], desc |-> run.outs[i].desc]] :
          run \in {RunFn(<<g>>, 1, fn, InitHeap)}})

\* The RuleResults of one iteration of search() over compiled functions.
CompiledResults(beam, fns) ==
    Flatten([b \in 1..Len(beam) |->
        Flatten([r \in 1..Len(fns) |-> CallFn(fns[r], beam[b].g)])])

\* The graph object a call r(g) was passed, as the call leaves it.
LeftBy(fn, g) == Only({run.store[1] : run \in {RunFn(<<g>>, 1, fn, InitHeap)}})

\* The graphs an iteration passes to the rewrite functions, each as passed
\* and as left.
Passed(beam, fns) ==
    {[passed |-> beam[b].g, left |-> LeftBy(fns[r], beam[b].g)] :
        b \in 1..Len(beam), r \in 1..Len(fns)}

\* The state of search() after the selection of beam from the candidates of
\* acc: best, seen_signatures, memo and the provenance are brought up to date.
Selected(st, acc, beam) ==
    [iter |-> st.iter + 1, beam |-> beam,
     best |-> IF Improves(beam[1], st.best) THEN beam[1] ELSE st.best,
     seen |-> st.seen \cup {beam[i].sig : i \in 1..Len(beam)},
     memo |-> acc.memo, rng |-> acc.rng,
     prov |-> ProvLog(st.prov, beam[1].desc, beam[1].m), held |-> st.held]

\* The main loop of search() from the state st on.
RECURSIVE SearchLoop(_, _, _, _)
SearchLoop(st, fns, ev, cfg) ==
    IF st.iter = cfg.iters THEN st
    ELSE Only({IF acc.cands = <<>> THEN called
               ELSE Only({IF AfterIteration(next.best) = "done" THEN next
                          ELSE SearchLoop(next, fns, ev, cfg) :
                          next \in {Selected(called, acc, NextBeam(acc.cands, cfg))}}) :
               acc \in {EvalCandidates(CompiledResults(st.beam, fns),
                            [memo |-> st.memo, evals |-> <<>>, cands |-> <<>>, rng |-> st.rng],
                            ev, st.seen)},
               called \in {[st EXCEPT !.held = @ \cup Passed(st.beam, fns)]}})

\* search(initial, rules, evaluator, params, cfg) with a seed in cfg.
SearchCall(initial, fns, ev, cfg) ==
    Only({[best_g |-> st.best.g, best_m |-> st.best.m, steps |-> st.prov, held |-> st.held] :
          st \in {Only({SearchLoop([iter |-> 0, beam |-> <<b0>>, best |-> b0, seen |-> {},
                                    memo |-> <<>>, rng |-> StepRng(Reseed(0, cfg.seed)),
                                    prov |-> ProvLog(<<>>, "init", b0.m), held |-> {}],
                                   fns, ev, cfg) :
                         b0 \in {ScoreTuple(initial, Evaluate(ev, initial), "init", {},
                                            Reseed(0, cfg.seed))}})}})

\* aggregate_metrics
AggregateMetrics(results) ==
    IF results = <<>> THEN [feasible_count |-> 0, avg_cost |-> "inf", n |-> 0]
    ELSE [feasible_count |-> Cardinality({i \in 1..Len(results) : results[i].feasible}),
          avg_cost |-> Rat(SumSeq([i \in 1..Len(results) |-> results[i].cost]), Len(results)),
          n |-> Len(results)]

\* s.get("delta_cost", 0) of a provenance step, a dict.
StepDeltaCost(s) == IF "delta_cost" \in DOMAIN s THEN s.delta_cost ELSE 0

\* The descs SetProp_handler formats for a rewrite of a.k, each with what the
\* pattern ^SetProp\([^)]*prev=([0-9eE\.\-]+)\) finds in it: a number (in
\* hundredths, after float()), or no match when the previous value is None.
PrevForms ==
    {[desc |-> "SetProp(a,k=" \o PyStr(IntV(v)) \o ",prev=" \o PyStr(p) \o ")",
      rule_name |-> "SetProp", matches |-> p.t # "none", prev |-> Num(p)] :
        v \in PropValues, p \in {NoneV} \cup {IntV(n) : n \in PropValues}}

\* desc.startswith(rule_name + "("), pat.search(desc) and float(m.group(1)).
ParsePrev(desc, rule_name) ==
    IF \E f \in PrevForms : f.desc = desc /\ f.rule_name = rule_name /\ f.matches
    THEN [matches |-> TRUE,
          prev |-> (CHOOSE f \in PrevForms : f.desc = desc /\ f.rule_name = rule_name).prev]
    ELSE [matches |-> FALSE, prev |-> 0]

\* mine_prev_value(steps, rule_name, "prev", require_improvement)
MinePrevValue(steps, rule_name, require_improvement) ==
    LET kept == SelectSeq(steps, LAMBDA s :
                    /\ ParsePrev(s.rule, rule_name).matches
                    /\ (require_improvement => StepDeltaCost(s) > 0))
    IN  [i \in 1..Len(kept) |-> ParsePrev(kept[i].rule, rule_name).prev]

\* The miner hooks a caller passes: none finds no sample, zero answers [0.0],
\* costs the costs of the first two steps, prev is mine_prev_value on the
\* SetProp steps with require_improvement left on.
Miner(hook, steps) ==
    CASE hook = "none" -> <<>>
      [] hook = "prev" -> MinePrevValue(steps, "SetProp", TRUE)
      [] hook = "zero" -> <<0>>
      [] hook = "costs" -> [i \in 1..(IF Len(steps) < 2 THEN Len(steps) ELSE 2) |->
                               steps[i].metrics.cost]

\* The float reduce_threshold returns, as a value.
ThresholdValue(t) == FloatV(t.n \div t.d)

\* Mutant of Protocol: the guard is upserted before the 'before' evaluation.
ProtocolUpsertFirst ==
    <<"compile0", "suite", "provenance", "mine", "upsert", "before", "compile1", "after", "policy">>

\* Mutant of Protocol: the miner is called before the suite is looked at.
ProtocolMinerFirst ==
    <<"compile0", "mine", "suite", "provenance", "before", "upsert", "compile1", "after", "policy">>

\* The statements of propose_and_eval_guard in program order.
Protocol ==
    <<"compile0", "suite", "provenance", "mine", "before", "upsert", "compile1", "after", "policy">>

\* The statement after statement s.
StepAfter(s) == Protocol[(CHOOSE i \in 1..Len(Protocol) : Protocol[i] = s) + 1]

(***************************************************************************)
(* SpecBuilder: a caller writes a rule graph with the schema helpers and   *)
(* calls propose_and_eval_guard on it.                                     *)
(***************************************************************************)
MaxInstalls == 1

MaxBuilderCalls == 2

KParams(v) ==
    <<[k |-> "var", v |-> StrV("x")], [k |-> "key", v |-> StrV("k")], [k |-> "value", v |-> IntV(v)]>>

\* add_rule, add_param, add_var and add_guard for a SetProp rule on x.k.
InstallSetProp(g, rid, name, v, guards) ==
    InstallGuards(InstallVars(InstallParams(AddRule(g, rid, name, "SetProp"), rid, KParams(v)),
                              rid, XofT),
                  rid, guards)

RuleSetOnly == AddRuleset(EmptyGraph, "ruleset", <<>>)

BuilderRuleGraphs ==
    {InstallSetProp(InstallSetProp(RuleSetOnly, "rA", "A", 1, <<>>), "rB", "B", 2, <<>>),
     InstallSetProp(InstallSetProp(RuleSetOnly, "rA", "A", 1,
                        <<[var |-> "x", key |-> "k", op |-> "<", value |-> FloatV(300)]>>),
                    "rB", "B", 2, <<>>),
     InstallSetProp(InstallSetProp(RuleSetOnly, "", "A", 1, <<>>), "rB", "B", 2, <<>>),
     AddRule(InstallSetProp(RuleSetOnly, "rA", "A", 1, <<>>), "rB", "B", "Bogus"),
     InstallRule(InstallSetProp(RuleSetOnly, "rA", "A", 1, <<>>), "rC",
         RuleSpec("AddNode", <<[k |-> "type", v |-> StrV("U")], [k |-> "parent", v |-> StrV("a")]>>,
                  <<>>, <<>>))}

TaskGraph(k) == AddNode(EmptyGraph, "a", "T", <<[k |-> "k", v |-> IntV(k)]>>)

Suites == {<<>>, <<TaskGraph(0)>>, <<TaskGraph(1)>>, <<TaskGraph(0), TaskGraph(1)>>}

BuilderEvaluators ==
    {[cost |-> [k \in PropValues |-> <<500, 100, 300>>[k + 1]], feasible |-> f] : f \in {{2}, {1, 2}}}

GuardEditSpecs ==
    {[rule_name |-> n, var |-> "x", key |-> "k", op |-> "<", epsilon |-> e] :
        n \in {"A", "Z"}, e \in Margins}

BuilderArgs ==
    {[registry |-> RegistryStd, evaluator |-> ev, suite |-> s, miner |-> m, guard_spec |-> gs,
      cfg |-> [iters |-> i, beam_width |-> 1, dedupe_beam |-> TRUE, seed |-> IntV(0)],
      reducer |-> "median"] :
        ev \in BuilderEvaluators, s \in Suites, m \in {"none", "zero", "costs", "prev"},
        gs \in GuardEditSpecs, i \in 1..2}

LocalsUnset ==
    [rules0 |-> <<>>, suite |-> <<>>, prov |-> <<>>, best_g |-> <<>>, held |-> {},
     threshold |-> NoneV,
     res_before |-> <<>>, agg_before |-> "None", rules1 |-> <<>>,
     res_after |-> <<>>, agg_after |-> "None"]

BuilderInit ==
    /\ bRg \in BuilderRuleGraphs
    /\ bRg0 = EmptyGraph
    /\ bArgs \in BuilderArgs
    /\ bPc = "idle"
    /\ bLoc = LocalsUnset
    /\ bLog = <<>>
    /\ bRet = [status |-> "none"]
    /\ bOps = [installs |-> 0, calls |-> 0]
    /\ ReduceIdle
    /\ PolicyIdle
    /\ GraphStart
    /\ GuardIdle
    /\ MatchIdle
    /\ RulesIdle
    /\ SearchIdle
    /\ CompileIdle

\* No call of propose_and_eval_guard is running.
AtRest == bPc \in {"idle", "returned", "raised"}

\* A call made by the running call: what is called, the rule graph when it
\* begins and when it ends, and the rewrite functions and the graph handed
\* to it.
Called(what, fns, on) ==
    Append(bLog, [ev |-> what, rg |-> bRg, left |-> bRg', fns |-> fns, on |-> on])

\* The caller's schema-helper call leaves the rule graph g.
Install(g) ==
    /\ AtRest
    /\ bOps.installs < MaxInstalls
    /\ bRg' = g
    /\ bPc' = "idle"
    /\ bOps' = [bOps EXCEPT !.installs = @ + 1]
    /\ UNCHANGED <<bRg0, bArgs, bLoc, bLog, bRet, reduceVars, policyVars, notBuilderVars>>

BAddRule == \E rid \in {"rA", "rC"}, name \in {"A", "C"} : Install(AddRule(bRg, rid, name, "SetProp"))

BAddParam == Install(AddParam(bRg, "rA", "value", IntV(2)))

BAddVar == Install(AddVar(bRg, "rA", "x", "T"))

BAddGuard == Install(AddGuard(bRg, "rA", "x", "k", "<", FloatV(100)))

\* upsert_threshold_guard called by the caller; a KeyError is caught.
BUpsertCall ==
    \E name \in {"A", "Z"} : Install(UpsertThresholdGuard(bRg, name, "x", "k", "<", FloatV(100)).g)

\* compile_rules_from_pgr called by the caller: it reads the rule graph, and
\* whether it returns or raises, the graph is as it was.
BCompileCall == Install(bRg)

\* propose_and_eval_guard(rg, ...) is entered.
BEnter ==
    /\ AtRest
    /\ bOps.calls < MaxBuilderCalls
    /\ bOps' = [bOps EXCEPT !.calls = @ + 1]
    /\ bPc' = Protocol[1]
    /\ bRg0' = bRg
    /\ bLoc' = LocalsUnset
    /\ bLog' = <<>>
    /\ bRet' = [status |-> "none"]
    /\ UNCHANGED <<bRg, bArgs, reduceVars, policyVars, notBuilderVars>>

\* Line 90: rules0 = compile_rules_from_pgr(rg, compile_ctx)
BCompile0 ==
    /\ bPc = "compile0"
    /\ \E c \in {CompileRulesFromPgr(bRg, bArgs.registry)} :
          /\ bLoc' = [bLoc EXCEPT !.rules0 = c.fns]
          /\ bPc' = IF c.status = "ok" THEN StepAfter("compile0") ELSE "raised"
          /\ bRet' = IF c.status = "ok" THEN bRet ELSE [status |-> "raised", error |-> c.status]
    /\ UNCHANGED <<bRg, bRg0, bArgs, bOps, reduceVars, policyVars, notBuilderVars>>
    /\ bLog' = Called("compile", <<>>, <<>>)

\* Lines 93-95: the suite is fetched; an empty one raises ValueError.
BSuite ==
    /\ bPc = "suite"
    /\ bLoc' = [bLoc EXCEPT !.suite = bArgs.suite]
    /\ bPc' = IF bArgs.suite = <<>> THEN "raised" ELSE StepAfter("suite")
    /\ bRet' = IF bArgs.suite = <<>> THEN [status |-> "raised", error |-> "ValueError"] ELSE bRet
    /\ UNCHANGED <<bRg, bRg0, bArgs, bOps, reduceVars, policyVars, notBuilderVars>>
    /\ bLog' = Called("golden_suite_fn", <<>>, <<>>)

\* Lines 96-97: search on the first task, for its provenance.
BProvenance ==
    /\ bPc = "provenance"
    /\ \E res \in {SearchCall(bLoc.suite[1], bLoc.rules0, bArgs.evaluator, bArgs.cfg)} :
           bLoc' = [bLoc EXCEPT !.prov = res.steps, !.best_g = res.best_g, !.held = res.held]
    /\ bPc' = StepAfter("provenance")
    /\ UNCHANGED <<bRg, bRg0, bArgs, bRet, bOps, reduceVars, policyVars, notBuilderVars>>
    /\ bLog' = Called("search", bLoc.rules0, bLoc.suite[1])

\* Lines 100-103: the miner, reduce_threshold, and the abort on no threshold.
BMine ==
    /\ bPc = "mine"
    /\ \E t \in {ReduceThreshold(Miner(bArgs.miner, bLoc.prov), bArgs.guard_spec.epsilon,
                                 bArgs.reducer)} :
          /\ bLoc' = [bLoc EXCEPT !.threshold = IF t.status = "ok" THEN ThresholdValue(t.t) ELSE NoneV]
          /\ bPc' = CASE t.status = "ok" -> StepAfter("mine")
                      [] t.status = "None" -> "returned"
                      [] OTHER -> "raised"
          /\ bRet' = CASE t.status = "ok" -> bRet
                       [] t.status = "None" ->
                            [status |-> "returned", threshold |-> NoneV, accepted |-> "None",
                             prov |-> bLoc.prov, agg_before |-> "None", agg_after |-> "None"]
                       [] OTHER -> [status |-> "raised", error |-> t.status]
    /\ UNCHANGED <<bRg, bRg0, bArgs, bOps, reduceVars, policyVars, notBuilderVars>>
    /\ bLog' = Called("miner", <<>>, <<>>)

\* Lines 106-107: run_golden_suite(rules0, ...), one search per step, and
\* aggregate_metrics after the last.
BBefore ==
    /\ bPc = "before"
    /\ \E res \in {Append(bLoc.res_before,
                       SearchCall(bLoc.suite[Len(bLoc.res_before) + 1], bLoc.rules0,
                                  bArgs.evaluator, bArgs.cfg).best_m)} :
          IF Len(res) < Len(bLoc.suite)
          THEN /\ bLoc' = [bLoc EXCEPT !.res_before = res]
               /\ bPc' = "before"
          ELSE /\ bLoc' = [bLoc EXCEPT !.res_before = res, !.agg_before = AggregateMetrics(res)]
               /\ bPc' = StepAfter("before")
    /\ UNCHANGED <<bRg, bRg0, bArgs, bRet, bOps, reduceVars, policyVars, notBuilderVars>>
    /\ bLog' = Called("search", bLoc.rules0, bLoc.suite[Len(bLoc.res_before) + 1])

\* Lines 110-117: upsert_threshold_guard, its return value dropped.
BUpsert ==
    /\ bPc = "upsert"
    /\ \E u \in {UpsertThresholdGuard(bRg, bArgs.guard_spec.rule_name, bArgs.guard_spec.var,
                     bArgs.guard_spec.key, bArgs.guard_spec.op, bLoc.threshold)} :
          /\ bRg' = u.g
          /\ bPc' = IF u.ret = "raise" THEN "raised" ELSE StepAfter("upsert")
          /\ bRet' = IF u.ret = "raise" THEN [status |-> "raised", error |-> "KeyError"] ELSE bRet
    /\ UNCHANGED <<bRg0, bArgs, bLoc, bOps, reduceVars, policyVars, notBuilderVars>>
    /\ bLog' = Called("upsert_threshold_guard", <<>>, <<>>)

\* Line 120: rules1 = compile_rules_from_pgr(rg, compile_ctx)
BCompile1 ==
    /\ bPc = "compile1"
    /\ \E c \in {CompileRulesFromPgr(bRg, bArgs.registry)} :
          /\ bLoc' = [bLoc EXCEPT !.rules1 = c.fns]
          /\ bPc' = IF c.status = "ok" THEN StepAfter("compile1") ELSE "raised"
          /\ bRet' = IF c.status = "ok" THEN bRet ELSE [status |-> "raised", error |-> c.status]
    /\ UNCHANGED <<bRg, bRg0, bArgs, bOps, reduceVars, policyVars, notBuilderVars>>
    /\ bLog' = Called("compile", <<>>, <<>>)

\* Lines 121-122: run_golden_suite(rules1, ...) and aggregate_metrics.
BAfter ==
    /\ bPc = "after"
    /\ \E res \in {Append(bLoc.res_after,
                       SearchCall(bLoc.suite[Len(bLoc.res_after) + 1], bLoc.rules1,
                                  bArgs.evaluator, bArgs.cfg).best_m)} :
          IF Len(res) < Len(bLoc.suite)
          THEN /\ bLoc' = [bLoc EXCEPT !.res_after = res]
               /\ bPc' = "after"
          ELSE /\ bLoc' = [bLoc EXCEPT !.res_after = res, !.agg_after = AggregateMetrics(res)]
               /\ bPc' = StepAfter("after")
    /\ UNCHANGED <<bRg, bRg0, bArgs, bRet, bOps, reduceVars, policyVars, notBuilderVars>>
    /\ bLog' = Called("search", bLoc.rules1, bLoc.suite[Len(bLoc.res_after) + 1])

\* Lines 124-125: the acceptance policy and the return.
BPolicy ==
    /\ bPc = "policy"
    /\ bRet' = [status |-> "returned", threshold |-> bLoc.threshold,
                accepted |-> IF DefaultAcceptPolicy(bLoc.agg_before, bLoc.agg_after)
                             THEN "True" ELSE "False",
                prov |-> bLoc.prov, agg_before |-> bLoc.agg_before, agg_after |-> bLoc.agg_after]
    /\ bPc' = "returned"
    /\ UNCHANGED <<bRg, bRg0, bArgs, bLoc, bOps, reduceVars, policyVars, notBuilderVars>>
    /\ bLog' = Called("accept_policy", <<>>, <<>>)

BuilderNext ==
    \/ BAddRule
    \/ BAddParam
    \/ BAddVar
    \/ BAddGuard
    \/ BUpsertCall
    \/ BCompileCall
    \/ BEnter
    \/ BCompile0
    \/ BSuite
    \/ BProvenance
    \/ BMine
    \/ BBefore
    \/ BUpsert
    \/ BCompile1
    \/ BAfter
    \/ BPolicy

SpecBuilder == BuilderInit /\ [][BuilderNext]_vars

\* The positions in the current call's log of the calls of what.
Events(what) == {i \in 1..Len(bLog) : bLog[i].ev = what}

\* The rule graph has the nodes and edges it had when the call was entered.
RuleGraphAsEntered == bRg.nodes = bRg0.nodes /\ bRg.edges = bRg0.edges

\* The previous values of the steps of the rule whose cost is below the cost
\* of the step before.
ImprovingPrevs(steps, rule_name) ==
    LET hits == SelectSeq([i \in 1..Len(steps) |-> i], LAMBDA i :
                    /\ ParsePrev(steps[i].rule, rule_name).matches
                    /\ i > 1
                    /\ steps[i].metrics.cost < steps[i - 1].metrics.cost)
    IN  [j \in 1..Len(hits) |-> ParsePrev(steps[hits[j]].rule, rule_name).prev]

\* C32 (as claimed): mine_prev_value with require_improvement on, called on
\* the provenance steps of search(), returns the previous values of exactly
\* the steps of the rule that lowered the cost.
C32_MinerImprovingSteps ==
    (bPc # "idle" /\ Events("miner") # {} /\ bArgs.miner = "prev") =>
        Miner(bArgs.miner, bLoc.prov) = ImprovingPrevs(bLoc.prov, "SetProp")

\* C22: when the miner returns no samples the call returns a null threshold,
\* null decision and null aggregates with the provenance of the search on the
\* first task, has run no golden-suite evaluation and no upsert, and leaves
\* the rule graph's nodes and edges as they were.
C22_NoSamplesAborts ==
    (bPc # "idle" /\ Events("miner") # {} /\ Miner(bArgs.miner, bLoc.prov) = <<>>) =>
        /\ bPc = "returned"
        /\ bRet = [status |-> "returned", threshold |-> NoneV, accepted |-> "None",
                   prov |-> SearchCall(bArgs.suite[1],
                                       CompileRulesFromPgr(bRg0, bArgs.registry).fns,
                                       bArgs.evaluator, bArgs.cfg).steps,
                   agg_before |-> "None", agg_after |-> "None"]
        /\ Cardinality(Events("search")) = 1
        /\ Events("upsert_threshold_guard") = {}
        /\ bLoc.res_before = <<>> /\ bLoc.res_after = <<>>
        /\ RuleGraphAsEntered

\* C22 witness: a call whose miner found nothing has returned, with a
\* provenance of more than the seed step.
C22_Witness ==
    /\ bPc = "returned"
    /\ bArgs.miner = "none"
    /\ bRet.threshold = NoneV
    /\ Len(bRet.prov) >= 2

\* C23: with an empty task suite the call raises an error, having run no
\* search and not called the miner, and the rule graph is as it was; the
\* error is the ValueError of the suite test when compilation succeeded.
C23_EmptySuiteFails ==
    (bArgs.suite = <<>> /\ bPc \notin {"idle", "compile0", "suite"}) =>
        /\ bPc = "raised"
        /\ bRet.status = "raised"
        /\ Len(bLog) = 2 => bRet.error = "ValueError"
        /\ Events("search") = {}
        /\ Events("miner") = {}
        /\ Events("upsert_threshold_guard") = {}
        /\ RuleGraphAsEntered

\* C23 witness: the rule graph compiled, the suite was fetched and found
\* empty, and the call raised ValueError.
C23_Witness ==
    /\ bPc = "raised"
    /\ bArgs.suite = <<>>
    /\ Len(bLog) = 2
    /\ bLog[2].ev = "golden_suite_fn"
    /\ bRet = [status |-> "raised", error |-> "ValueError"]

\* The rule graph g holds, on the rule with id rid, a guard (var, key, op)
\* of the given value.
HasGuardOn(g, rid, var, key, op, value) ==
    \E i \in 1..Len(g.edges) :
        /\ g.edges[i][1] = rid
        /\ g.edges[i][2] = HAS_GUARD
        /\ HasNode(g, g.edges[i][3])
        /\ GuardPropsMatch(Props(g, g.edges[i][3]), var, key, op)
        /\ DictGetOr(Props(g, g.edges[i][3]), "value", NoneV) = value

\* C24 (as claimed): whenever the call returns a non-null threshold for a
\* guard spec whose target rule exists, the rule graph then holds on that
\* rule a guard (var, key, op) whose value is the returned threshold, be the
\* decision accept or reject, and the upsert was made before the acceptance
\* policy was called.
C24_NoRollback ==
    LET gs == bArgs.guard_spec
        rid == FindRuleIdByName(bRg0, gs.rule_name)
    IN  (bPc = "returned" /\ bRet.threshold # NoneV /\ rid # NoneV) =>
            /\ HasGuardOn(bRg, rid.s, gs.var, gs.key, gs.op, bRet.threshold)
            /\ bRet.accepted \in {"True", "False"}
            /\ \A p \in Events("accept_policy") :
                   \E u \in Events("upsert_threshold_guard") : u < p

\* C39: the search on the first task leaves every graph it passed to a
\* rewrite function, the seed first of all, with the nodes, types, property
\* values and edges it had when passed, and the caller's seed is as it was.
C39_SearchLeavesGraphs ==
    (bPc # "idle" /\ Events("search") # {}) =>
        /\ bLoc.suite[1] = bArgs.suite[1]
        /\ bLoc.rules0 # <<>> => \E h \in bLoc.held : h.passed = bArgs.suite[1]
        /\ \A h \in bLoc.held :
               /\ h.left = h.passed
               /\ DeepView(h.left, InitHeap) = DeepView(h.passed, InitHeap)

\* C39 witness: a search over a SetProp and an AddNode function went through
\* two iterations, passed the seed and a later beam graph to the functions,
\* and returned the seed itself as the best graph.
C39_Witness ==
    /\ bPc # "idle"
    /\ Events("search") # {}
    /\ \E i \in 1..Len(bLoc.rules0) : bLoc.rules0[i].kind = "AddNode"
    /\ \E i \in 1..Len(bLoc.rules0) : bLoc.rules0[i].kind = "SetProp"
    /\ Len(bLoc.prov) = 3
    /\ bLoc.best_g = bArgs.suite[1]
    /\ \E h \in bLoc.held : h.passed # bArgs.suite[1]
    /\ \A h \in bLoc.held : h.left = h.passed

\* C40: when no Rule node carries the name of the guard spec and the miner
\* yields samples, the rule graph keeps the nodes and edges it had at entry
\* through the upsert and to the return, the call returns equal before and
\* after aggregates, and the decision is reject.
C40_MissingRuleRejects ==
    (FindRuleIdByName(bRg0, bArgs.guard_spec.rule_name) = NoneV /\ bPc # "idle"
       /\ Events("miner") # {} /\ Miner(bArgs.miner, bLoc.prov) # <<>>) =>
        /\ RuleGraphAsEntered
        /\ bPc # "raised"
        /\ bPc = "returned" =>
               /\ bRet.threshold # NoneV
               /\ bRet.agg_before = bRet.agg_after
               /\ bRet.agg_before.n = Len(bArgs.suite)
               /\ bRet.accepted = "False"
               /\ Cardinality(Events("upsert_threshold_guard")) = 1

\* C40 witness: such a call has returned, over a suite of two tasks.
C40_Witness ==
    /\ bPc = "returned"
    /\ FindRuleIdByName(bRg0, bArgs.guard_spec.rule_name) = NoneV
    /\ Miner(bArgs.miner, bLoc.prov) # <<>>
    /\ bRet.accepted = "False"
    /\ bRet.agg_before = bRet.agg_after
    /\ bRet.agg_before.n = 2
    /\ RuleGraphAsEntered

\* The searches logged between positions lo and hi ran on the suite's tasks
\* in order, each with the functions fns and with the rule graph g throughout.
WholeSuite(lo, hi, fns, g) ==
    LET at == {s \in Events("search") : lo < s /\ s < hi}
    IN  /\ Cardinality(at) = Len(bArgs.suite)
        /\ \A s \in at :
              /\ bLog[s].fns = fns
              /\ bLog[s].rg = g /\ bLog[s].left = g
              /\ bLog[s].on = bArgs.suite[Cardinality({r \in at : r <= s})]

\* C25: the provenance search on the first task and the whole 'before'
\* evaluation are complete, with functions compiled from the rule graph as
\* entered, before the upsert; the recompile and the whole 'after' evaluation
\* lie between the upsert and the policy call; no search call begins and ends
\* with different rule graphs.
C25_ProtocolOrder ==
    LET rules0 == CompileRulesFromPgr(bRg0, bArgs.registry).fns
        mined == CHOOSE m \in Events("miner") : TRUE
    IN  /\ \A s \in Events("search") : bLog[s].rg = bLog[s].left
        /\ Cardinality(Events("upsert_threshold_guard")) <= 1
        /\ \A u \in Events("upsert_threshold_guard") :
              /\ \A i \in 1..(u - 1) : bLog[i].rg = bRg0 /\ bLog[i].left = bRg0
              /\ {s \in Events("search") : s < mined} = {mined - 1}
              /\ bLog[mined - 1].fns = rules0
              /\ bLog[mined - 1].on = bArgs.suite[1]
              /\ WholeSuite(mined, u, rules0, bRg0)
        /\ \A p \in Events("accept_policy") :
              \E u \in Events("upsert_threshold_guard") :
                  /\ u + 1 \in Events("compile")
                  /\ WholeSuite(u + 1, p, CompileRulesFromPgr(bLog[u].left, bArgs.registry).fns,
                                bLog[u].left)
                  /\ p = u + 1 + Len(bArgs.suite) + 1
                  /\ p = Len(bLog)

\* C25 witness: a call on a suite of two tasks has returned, its upsert
\* having changed the rule graph.
C25_Witness ==
    /\ bPc = "returned"
    /\ Len(bArgs.suite) = 2
    /\ Events("accept_policy") # {}
    /\ \E u \in Events("upsert_threshold_guard") : bLog[u].left # bLog[u].rg

\* The node ids of the rule graph g, and those of its Guard nodes.
IdsOf(g) == {g.nodes[i].k : i \in 1..Len(g.nodes)}

GuardIdsOf(g) == {g.nodes[i].k : i \in {j \in 1..Len(g.nodes) : g.nodes[j].v.type = "Guard"}}

GuardEdges(g) == SelectSeq(g.edges, LAMBDA e : e[2] = HAS_GUARD)

\* From g to h no node id and no edge entry is lost.
NothingLost(g, h) ==
    /\ IdsOf(g) \subseteq IdsOf(h)
    /\ \A i \in 1..Len(g.edges) : Count(h.edges, g.edges[i]) >= Count(g.edges, g.edges[i])

\* Over g, h has at most one node more, a Guard node, and at most one edge
\* more, a has_guard edge.
OneGuardMore(g, h) ==
    /\ Cardinality(IdsOf(h) \ IdsOf(g)) <= 1
    /\ IdsOf(h) \ IdsOf(g) \subseteq GuardIdsOf(h)
    /\ Len(h.edges) <= Len(g.edges) + 1
    /\ Len(h.edges) - Len(g.edges) = Len(GuardEdges(h)) - Len(GuardEdges(g))

\* C28: no step of a schema helper, a compilation or propose_and_eval_guard
\* removes a node id or an edge entry from the rule graph, and during and at
\* the end of one propose_and_eval_guard call the rule graph has at most one
\* Guard node and one has_guard edge more than when the call was entered.
C28_NothingDeleted ==
    [][/\ NothingLost(bRg, bRg')
       /\ bPc' # "idle" => (NothingLost(bRg0', bRg') /\ OneGuardMore(bRg0', bRg'))]_vars

\* C28 witness: a call has returned having added one Guard node and one
\* has_guard edge to a rule graph that a schema helper had extended before.
C28_Witness ==
    /\ bPc = "returned"
    /\ bOps.installs > 0
    /\ Cardinality(GuardIdsOf(bRg) \ GuardIdsOf(bRg0)) = 1
    /\ Len(GuardEdges(bRg)) = Len(GuardEdges(bRg0)) + 1
    /\ NothingLost(bRg0, bRg)

====
